---- MODULE Spec2Model ----
(***************************************************************************)
(* State-machine model of the local IoT bridge                             *)
(* (src/src/smarthome/bridge/iot_bridge.py), its shadow manager            *)
(* (src/src/smarthome/bridge/shadow_manager.py) and the mock bulb          *)
(* (src/src/smarthome/devices/tapo_bulb.py).                               *)
(*                                                                         *)
(* Every handler is one action: with the mock bulb no coroutine of the     *)
(* bridge suspends (the awaits complete synchronously and the SDK futures  *)
(* are waited for with the blocking result()), so a handler runs to        *)
(* completion on the event loop before the next one starts.  SDK callbacks *)
(* run on the SDK's thread and only enqueue work on the loop.              *)
(*                                                                         *)
(* With the real bulb (TapoBulb) every device call awaits network I/O; the *)
(* command handlers are then split at those awaits (SpecIO).  The cloud    *)
(* adapter's reader of the shadow (src/src/smarthome/cloud/iot_commands.py)*)
(* is the operator get_device_state.                                       *)
(***************************************************************************)
EXTENDS Integers, Sequences, FiniteSets, TLC

VARIABLES
    reconnect_delay,   \* IoTBridge._reconnect_delay
    disabled,          \* IoTBridge._disabled
    running,           \* IoTBridge._running
    connection,        \* IoTBridge._connection: "None" or "conn"
    shadow_manager,    \* IoTBridge._shadow_manager: "None" or "shadow"
    loop,              \* IoTBridge._loop: "None" or "loop"
    bulb,              \* MockTapoBulb.state
    link,              \* the transport's view of the connection object
    queue,             \* coroutines submitted to the event loop, in order
    io,                \* command handlers suspended on the real bulb's I/O, and their log
    dev,               \* a MockTapoBulb on its own: its state, its state file, its last call
    reg,               \* a DeviceRegistry, the dicts it handed out, its last call
    sh,                \* a ShadowManager, the shadow document it syncs with, its last call
    lg,                \* a DynamoStateLogger, the writes it attempted, its last call
    cl,                \* the cloud side: the IoT data client, a bridge behind it, the last tool call
    rc,                \* a shadow whose broker emits deltas, and the bridge reconciling with it
    hr,                \* a real bulb, the handlers suspended on its I/O, the shadow they report to
    failsSinceReset,   \* history: start() failures since construction or the last counter reset
    last               \* history: what the most recent operation did

\* the bridge and its bulb
bridgeVars == <<reconnect_delay, disabled, running, connection, shadow_manager,
                loop, bulb, link, queue, io, failsSinceReset, last>>

\* the components modelled on their own
others == <<dev, reg, sh, lg, cl, rc, hr>>

vars == <<bridgeVars, others>>

----------------------------------------------------------------------------
(* Program constants and model bounds *)

MIN_RECONNECT_DELAY_SEC == 1
MAX_RECONNECT_DELAY_SEC == 128

\* most coroutines waiting on the event loop at one time
MaxQueue == 1

\* most consecutive start() failures in the command-handling specification
MaxStartFailures == 1

\* most commands delivered to a bridge that drives the real bulb
MaxIoCommands == 2

\* the delta callback's invocations that are kept
MaxDeltaCalls == 2

\* the highest shadow version an event carries
MaxVersion == 2

\* the reported-state updates of one reconciliation that are counted
MaxReports == 3

\* the handlers started on a bridge that drives the real bulb
MaxHandlers == 2

Min2(a, b) == IF a <= b THEN a ELSE b

----------------------------------------------------------------------------
(* JSON values, tagged by type so that values of different types compare *)

Absent == [t |-> "absent"]
JInt(n) == [t |-> "int", n |-> n]
JStr(s) == [t |-> "str", s |-> s]
JBool(b) == [t |-> "bool", b |-> b]
\* a JSON object that may carry the key "brightness" and the key "is_on"
JDict(is_on, brightness, other) ==
    [t |-> "dict", is_on |-> is_on, brightness |-> brightness, other |-> other]
EmptyJDict == JDict(Absent, Absent, FALSE)

\* the Python dict {}
EmptyDict == [k \in {} |-> TRUE]

----------------------------------------------------------------------------
(* MockTapoBulb *)

\* MockTapoBulb._load_state without a state file
DefaultState == [is_on |-> FALSE, brightness |-> 100, color_temp |-> 2700,
                 last_updated |-> "ts"]

\* MockTapoBulb.get_status
get_status(state) ==
    [is_on |-> state.is_on, brightness |-> state.brightness,
     color_temp |-> state.color_temp, last_updated |-> state.last_updated]

\* MockTapoBulb.turn_on / turn_off: the new state and the result dict
turn_on(state) ==
    LET s == [state EXCEPT !.is_on = TRUE]
    IN [bulb |-> s,
        result |-> [success |-> TRUE, message |-> [text |-> "Bulb turned on"],
                    state |-> get_status(s)]]

turn_off(state) ==
    LET s == [state EXCEPT !.is_on = FALSE]
    IN [bulb |-> s,
        result |-> [success |-> TRUE, message |-> [text |-> "Bulb turned off"],
                    state |-> get_status(s)]]

\* a set_brightness without the range check
set_brightness_Unchecked(state, brightness) ==
    LET s == [state EXCEPT !.brightness = brightness]
    IN [bulb |-> s,
        result |-> [success |-> TRUE,
                    message |-> [text |-> "Brightness set to ",
                                 got |-> brightness],
                    state |-> get_status(s)]]

\* a set_brightness that clamps the value into the range instead of
\* rejecting it
set_brightness_Clamps(state, brightness) ==
    LET n == IF brightness < 0 THEN 0
             ELSE IF brightness > 100 THEN 100 ELSE brightness
        s == [state EXCEPT !.brightness = n]
    IN [bulb |-> s,
        result |-> [success |-> TRUE,
                    message |-> [text |-> "Brightness set to ", got |-> n],
                    state |-> get_status(s)]]

\* MockTapoBulb.set_brightness: the rejection carries no "state" key
set_brightness(state, brightness) ==
    IF ~(0 <= brightness /\ brightness <= 100)
    THEN [bulb |-> state,
          result |-> [success |-> FALSE,
                      message |-> [text |-> "Brightness must be 0-100, got ",
                                   got |-> brightness]]]
    ELSE LET s == [state EXCEPT !.brightness = brightness]
         IN [bulb |-> s,
             result |-> [success |-> TRUE,
                         message |-> [text |-> "Brightness set to ",
                                      got |-> brightness],
                         state |-> get_status(s)]]

----------------------------------------------------------------------------
(* History record of the most recent operation *)

NoCmd == [device |-> "", action |-> "", payload |-> Absent]

\* ctx is the context the operation ran in: the event loop or the SDK's
\* thread; success, sm and shadowFailed describe a handled command: what its
\* action returned, whether the bridge held a shadow manager, and whether
\* update_reported was called and returned False; desired is the delta
\* applied; pre is the bulb's state before a callback or a handler ran
Idle == [op |-> "init", result |-> FALSE, raised |-> FALSE, touched |-> {},
         faults |-> {}, cmd |-> NoCmd, out |-> <<>>, conn |-> FALSE,
         pubOk |-> FALSE, ctx |-> "loop", success |-> FALSE, sm |-> FALSE,
         shadowFailed |-> FALSE, desired |-> Absent, pre |-> DefaultState]

\* no handler is suspended, none has been delivered: inflight holds the
\* suspended handlers, log the device effects and the responses in the order
\* they happened, delivered counts the commands handed to such handlers
NoIo == [inflight |-> {}, log |-> <<>>, delivered |-> 0]

\* the state file of a mock bulb: missing, unreadable as JSON, or a saved state
NoFile == [t |-> "absent"]
CorruptFile == [t |-> "corrupt"]
JsonFile(state) == [t |-> "json", state |-> state]

\* a mock bulb constructed where no state file exists, before any call
NewDevice ==
    [state |-> DefaultState, file |-> NoFile,
     last |-> [op |-> "init", action |-> "", parameters |-> Absent,
               result |-> Absent, raised |-> FALSE, outcome |-> "ok",
               pre |-> DefaultState, prefile |-> NoFile]]

\* the ids and the device objects a registry is used with
DeviceIds == {"bulb-1", "bulb-2"}
DeviceObjects == {"d1", "d2"}

\* an empty registry: devices is its _devices dict, a sequence of entries
\* in insertion order; held is the dict object a caller got from get_all;
\* removed holds the ids that were unregistered at some time
NewRegistry ==
    [devices |-> <<>>,
     held |-> [ref |-> "none"],
     removed |-> {},
     last |-> [op |-> "init", id |-> "", device |-> "None", raised |-> FALSE,
               returned |-> "None", pre |-> <<>>]]

\* the shadow document kept by the shadow service
EmptyShadow == [reported |-> EmptyDict, desired |-> EmptyDict]

\* a ShadowManager before any call: version is _current_version (0 stands
\* for None), delta_callback tells whether _delta_callback is set, listeners
\* counts the delta listeners registered with the client, accepted tells
\* whether a get-shadow listener is registered, calls holds the state maps
\* the delta callback was invoked with, doc is the service's document
NewShadow ==
    [version |-> 0, delta_callback |-> FALSE, listeners |-> 0,
     accepted |-> FALSE, calls |-> <<>>, doc |-> EmptyShadow,
     last |-> [op |-> "init", result |-> FALSE, raised |-> FALSE,
               state |-> EmptyDict, version |-> 0, request |-> <<>>,
               repeat |-> FALSE, fault |-> "none",
               pre |-> [version |-> 0, calls |-> <<>>, doc |-> EmptyShadow]]]

\* a DynamoStateLogger before any call: table tells whether the Table
\* resource has been created, items holds the items put into the table
NewLogger ==
    [disabled |-> FALSE, table |-> "None", items |-> {},
     last |-> [op |-> "init", raised |-> FALSE, attempted |-> FALSE,
               failed |-> FALSE, fault |-> "none",
               pre |-> [disabled |-> FALSE, items |-> {}]]]

\* the device the serverless handler is configured for
DEVICE_ID == "tapo-bulb-default"

\* the cloud side before any tool call: no bridge is connected to the
\* broker, the bulb behind the bridge is in its default state, the shadow's
\* reported document is empty
NewCloud ==
    [online |-> FALSE, bulb |-> DefaultState, reported |-> EmptyDict,
     last |-> [op |-> "init", tool |-> "", event |-> EmptyDict,
               action |-> "", parameters |-> EmptyDict,
               pubOk |-> FALSE, shadowOk |-> FALSE, steps |-> <<>>,
               result |-> [success |-> FALSE], raised |-> FALSE,
               received |-> FALSE, executed |-> FALSE,
               response |-> [status |-> "none"], pre |-> DefaultState]]

----------------------------------------------------------------------------
(* Reported state and the shadow *)

\* the dict _report_current_state and _handle_command hand to update_reported
ReportedState(state) ==
    [is_on |-> state.is_on, brightness |-> state.brightness,
     color_temp |-> state.color_temp, last_updated |-> state.last_updated,
     bridge_connected |-> TRUE, device_reachable |-> TRUE]

\* ShadowManager.update_reported: the publishes it adds; ok is whether the
\* SDK's publish completed, a failure is swallowed and yields False
update_reported(state, ok) ==
    IF ok THEN <<[kind |-> "shadow", reported |-> state]>> ELSE <<>>

\* IoTBridge._report_current_state
report_current_state(sm, state, ok) ==
    IF sm = "None" THEN <<>>
    ELSE update_reported(ReportedState(get_status(state)), ok)

\* a started bridge that drives a real bulb: the bulb is in its default
\* state, start() has reported it to the shadow, no handler has begun
NewHandlers ==
    [device |-> DefaultState,
     accepted |-> [is_on |-> DefaultState.is_on,
                   brightness |-> DefaultState.brightness,
                   color_temp |-> DefaultState.color_temp],
     suspended |-> {}, begun |-> 0, last |-> "init"]

\* a started bridge and its shadow at rest: the desired document is empty,
\* the reported one is the bridge's initial report, no delta event and no
\* update is on its way; reports counts the updates the bridge published
\* since the desired document was last written
NewReconcile ==
    [desired |-> EmptyJDict, bulb |-> DefaultState,
     reported |-> ReportedState(get_status(DefaultState)),
     delta |-> Absent, update |-> Absent, reports |-> 0]

----------------------------------------------------------------------------
(* Connection lifecycle *)

Init ==
    /\ reconnect_delay = MIN_RECONNECT_DELAY_SEC
    /\ disabled = FALSE
    /\ running = FALSE
    /\ connection = "None"
    /\ shadow_manager = "None"
    /\ loop = "None"
    /\ bulb = DefaultState
    /\ link = [connected |-> FALSE, up |-> FALSE, commands |-> FALSE, delta |-> FALSE]
    /\ queue = <<>>
    /\ io = NoIo
    /\ failsSinceReset = 0
    /\ last = Idle
    /\ dev = NewDevice
    /\ reg = NewRegistry
    /\ sh = NewShadow
    /\ lg = NewLogger
    /\ cl = NewCloud
    /\ rc = NewReconcile
    /\ hr = NewHandlers

\* a failure handler that backs off but never disables
handle_connection_failure_NeverDisables(delay, dis) ==
    [reconnect_delay |-> Min2(delay * 2, MAX_RECONNECT_DELAY_SEC),
     disabled |-> dis]

\* IoTBridge._handle_connection_failure
handle_connection_failure(delay, dis) ==
    LET d == Min2(delay * 2, MAX_RECONNECT_DELAY_SEC)
    IN [reconnect_delay |-> d,
        disabled |-> IF d >= MAX_RECONNECT_DELAY_SEC THEN TRUE ELSE dis]

\* a start() that lacks the guard
StartShortCircuits_Never == FALSE

\* the guard at the head of IoTBridge.start
StartShortCircuits == disabled

\* the steps of start() the environment makes fail: the first of connection
\* creation, connect and command subscription ends the attempt; the delta
\* subscription and the initial report can fail independently after them
StartFaults ==
    {{}, {"create"}, {"connect"}, {"subscribe"},
     {"delta"}, {"report"}, {"delta", "report"}}

\* IoTBridge.start; F is the set of steps the environment makes fail
start(F) ==
    IF StartShortCircuits
    THEN /\ last' = [Idle EXCEPT !.op = "start"]
         /\ UNCHANGED <<reconnect_delay, disabled, running, connection,
                        shadow_manager, loop, bulb, io, others, link, queue, failsSinceReset>>
    ELSE
      LET createOk  == "create" \notin F
          connectOk == createOk /\ "connect" \notin F
          subOk     == connectOk /\ "subscribe" \notin F
          deltaOk   == subOk /\ "delta" \notin F
          reportOk  == subOk /\ "report" \notin F
          sm1       == IF connectOk THEN "shadow" ELSE shadow_manager
          touched   == {"create"}
                         \cup (IF createOk THEN {"connect"} ELSE {})
                         \cup (IF connectOk THEN {"subscribe"} ELSE {})
                         \cup (IF subOk THEN {"subscribe_delta", "update_reported"} ELSE {})
          hit       == {"create"}
                         \cup (IF createOk THEN {"connect"} ELSE {})
                         \cup (IF connectOk THEN {"subscribe"} ELSE {})
                         \cup (IF subOk THEN {"delta", "report"} ELSE {})
          fail      == handle_connection_failure(reconnect_delay, disabled)
      IN /\ loop' = "loop"
         /\ connection' = IF createOk THEN "conn" ELSE connection
         /\ link' = IF createOk
                    THEN [connected |-> connectOk, up |-> connectOk,
                          commands |-> subOk, delta |-> deltaOk]
                    ELSE link
         /\ shadow_manager' = sm1
         /\ IF subOk
            THEN /\ running' = TRUE
                 /\ reconnect_delay' = MIN_RECONNECT_DELAY_SEC
                 /\ UNCHANGED disabled
                 /\ failsSinceReset' = 0
            ELSE /\ UNCHANGED running
                 /\ reconnect_delay' = fail.reconnect_delay
                 /\ disabled' = fail.disabled
                 /\ failsSinceReset' = failsSinceReset + 1
         /\ last' = [Idle EXCEPT !.op = "start", !.result = subOk,
                       !.touched = touched, !.faults = F \cap hit,
                       !.out = IF subOk
                               THEN report_current_state(sm1, bulb, reportOk)
                               ELSE <<>>]
         /\ UNCHANGED <<bulb, io, others, queue>>

\* a stop() that clears the handles after the disconnect instead of in a
\* finally clause
stop_NoFinally(discOk) ==
    /\ running' = FALSE
    /\ IF connection # "None"
       THEN /\ connection' = IF discOk THEN "None" ELSE connection
            /\ shadow_manager' = IF discOk THEN "None" ELSE shadow_manager
            /\ link' = IF discOk
                       THEN [connected |-> FALSE, up |-> FALSE,
                             commands |-> FALSE, delta |-> FALSE]
                       ELSE link
            /\ last' = [Idle EXCEPT !.op = "stop", !.touched = {"disconnect"},
                          !.faults = IF discOk THEN {} ELSE {"disconnect"}]
       ELSE /\ UNCHANGED <<connection, shadow_manager, link>>
            /\ last' = [Idle EXCEPT !.op = "stop"]
    /\ UNCHANGED <<reconnect_delay, disabled, loop, bulb, io, others, queue, failsSinceReset>>

\* IoTBridge.stop; discOk is whether the disconnect completes
stop(discOk) ==
    /\ running' = FALSE
    /\ IF connection # "None"
       THEN /\ connection' = "None"
            /\ shadow_manager' = "None"
            /\ link' = IF discOk
                       THEN [connected |-> FALSE, up |-> FALSE,
                             commands |-> FALSE, delta |-> FALSE]
                       ELSE link
            /\ last' = [Idle EXCEPT !.op = "stop", !.touched = {"disconnect"},
                          !.faults = IF discOk THEN {} ELSE {"disconnect"}]
       ELSE /\ UNCHANGED <<connection, shadow_manager, link>>
            /\ last' = [Idle EXCEPT !.op = "stop"]
    /\ UNCHANGED <<reconnect_delay, disabled, loop, bulb, io, others, queue, failsSinceReset>>

\* a hand-off that submits the coroutine whether or not a loop is registered
schedule_coroutine_NoLoopCheck(q, coro) == Append(q, coro)

\* IoTBridge._schedule_coroutine: the queue after the hand-off; without a
\* registered loop the coroutine is closed and dropped
schedule_coroutine(q, coro) ==
    IF loop = "None" THEN q ELSE Append(q, coro)

\* when a callback registered by the bridge gets called: by the SDK, for a
\* message on a live subscription, or by whoever holds the bridge object
\* before start() has registered a loop
Fires(sub) == (link.connected /\ link.up /\ link[sub]) \/ loop = "None"

\* an interruption handler that counts the interruption as a failed start
on_connection_interrupted_CountsFailure ==
    /\ link.connected /\ link.up
    /\ link' = [link EXCEPT !.up = FALSE]
    /\ reconnect_delay' =
          handle_connection_failure(reconnect_delay, disabled).reconnect_delay
    /\ disabled' = handle_connection_failure(reconnect_delay, disabled).disabled
    /\ last' = [Idle EXCEPT !.op = "interrupted", !.ctx = "sdk", !.pre = bulb]
    /\ UNCHANGED <<running, connection, shadow_manager, loop, bulb, io, others, queue,
                   failsSinceReset>>

\* IoTBridge._on_connection_interrupted, called by the SDK when the link drops
on_connection_interrupted ==
    /\ link.connected /\ link.up
    /\ link' = [link EXCEPT !.up = FALSE]
    /\ last' = [Idle EXCEPT !.op = "interrupted", !.ctx = "sdk", !.pre = bulb]
    /\ UNCHANGED <<reconnect_delay, disabled, running, connection,
                   shadow_manager, loop, bulb, io, others, queue, failsSinceReset>>

\* a resume handler that re-reports but leaves the back-off where it was
on_connection_resumed_KeepsDelay ==
    /\ (link.connected /\ ~link.up) \/ loop = "None"
    /\ Len(queue) < MaxQueue
    /\ link' = [link EXCEPT !.up = link.connected]
    /\ failsSinceReset' = 0
    /\ queue' = schedule_coroutine(queue, [kind |-> "report"])
    /\ last' = [Idle EXCEPT !.op = "resumed", !.ctx = "sdk", !.pre = bulb]
    /\ UNCHANGED <<reconnect_delay, disabled, running, connection,
                   shadow_manager, loop, bulb, io, others>>

\* IoTBridge._on_connection_resumed, called by the SDK when the link is back
on_connection_resumed ==
    /\ (link.connected /\ ~link.up) \/ loop = "None"
    /\ Len(queue) < MaxQueue
    /\ link' = [link EXCEPT !.up = link.connected]
    /\ reconnect_delay' = MIN_RECONNECT_DELAY_SEC
    /\ failsSinceReset' = 0
    /\ queue' = schedule_coroutine(queue, [kind |-> "report"])
    /\ last' = [Idle EXCEPT !.op = "resumed", !.ctx = "sdk", !.pre = bulb]
    /\ UNCHANGED <<disabled, running, connection, shadow_manager, loop, bulb, io, others>>

----------------------------------------------------------------------------
(* Inbound commands *)

\* config.device_id, the only device this bridge drives
ConfigDeviceId == "test-device"

\* payload bytes of a command message, by what decoding makes of them
BadUtf8   == [t |-> "badutf8"]      \* bytes that are not UTF-8
BadJson   == [t |-> "badjson"]      \* text that is not JSON, the empty payload included
NonObject == [t |-> "nonobject"]    \* valid JSON that is not an object, such as [] or null
JObject(request_id, parameters) ==
    [t |-> "object", request_id |-> request_id, parameters |-> parameters]

Brightness(v) == JDict(Absent, v, FALSE)

Command(device, action, payload) ==
    [device |-> device, action |-> action, payload |-> payload]

\* the command messages the broker delivers in this model
Commands ==
    { Command(ConfigDeviceId, a, JObject(JStr("r1"), Absent)) :
         a \in {"turn_on", "turn_off", "bogus"} }
    \cup
    { Command(ConfigDeviceId, a, BadJson) :
         a \in {"get_status", "turn_on", "set_brightness"} }
    \cup
    { Command(ConfigDeviceId, "turn_on", p) :
         p \in {BadUtf8, NonObject, JObject(Absent, Absent)} }
    \cup
    { Command(ConfigDeviceId, "set_brightness", JObject(JStr("r1"), p)) :
         p \in {EmptyJDict, Brightness(JInt(50)), Brightness(JInt(150)),
                Brightness(JStr("abc")), JStr("x")} }
    \cup
    { Command("unknown-device", "turn_on", JObject(JStr("r1"), Absent)) }

\* a parser without the JSONDecodeError handler: the error leaves data unbound
ParsePayload_RejectsBadJson(payload) ==
    CASE payload.t = "badutf8"   -> [bound |-> FALSE, exc |-> "UnicodeDecodeError"]
      [] payload.t = "badjson"   -> [bound |-> FALSE, exc |-> "JSONDecodeError"]
      [] payload.t = "nonobject" -> [bound |-> TRUE, data |-> NonObject]
      [] OTHER                   -> [bound |-> TRUE, data |-> payload]

\* json.loads(payload.decode("utf-8")) with its JSONDecodeError handler:
\* the value bound to data, or the exception that leaves data unbound
ParsePayload(payload) ==
    CASE payload.t = "badutf8"   -> [bound |-> FALSE, exc |-> "UnicodeDecodeError"]
      [] payload.t = "badjson"   -> [bound |-> TRUE, data |-> JObject(Absent, Absent)]
      [] payload.t = "nonobject" -> [bound |-> TRUE, data |-> NonObject]
      [] OTHER                   -> [bound |-> TRUE, data |-> payload]

\* str(uuid.uuid4())
GeneratedId == JStr("uuid4")

\* a lookup that ignores the caller's request_id
RequestIdOf_IgnoresCaller(data, default) == default

\* data.get("request_id", default) on a dict
RequestIdOf(data, default) ==
    IF data.request_id = Absent THEN default ELSE data.request_id

\* data.get("parameters", {}) on a dict
ParametersOf(data) ==
    IF data.parameters = Absent THEN EmptyJDict ELSE data.parameters

\* int(x) for a JSON value: the integer, or the exception raised
IntOf(v) ==
    CASE v.t = "int"  -> [ok |-> TRUE, n |-> v.n]
      [] v.t = "bool" -> [ok |-> TRUE, n |-> IF v.b THEN 1 ELSE 0]
      [] OTHER        -> [ok |-> FALSE, exc |-> "ValueError"]

\* result.get("state", {})
StateOf(result) ==
    IF "state" \in DOMAIN result THEN result.state ELSE EmptyDict

\* IoTBridge._handle_turn_on/_turn_off/_get_status/_set_brightness, looked up
\* in _action_handlers: the new bulb state and either the result dict or the
\* exception that escapes the handler
RunHandler(action, parameters, state) ==
    CASE action = "turn_on"  -> [raised |-> FALSE] @@ turn_on(state)
      [] action = "turn_off" -> [raised |-> FALSE] @@ turn_off(state)
      [] action = "get_status" ->
            [raised |-> FALSE, bulb |-> state,
             result |-> [success |-> TRUE,
                         message |-> [text |-> "Status retrieved"],
                         state |-> get_status(state)]]
      [] action = "set_brightness" ->
            IF parameters.t # "dict"
            THEN [raised |-> TRUE, exc |-> "AttributeError", bulb |-> state]
            ELSE IF parameters.brightness = Absent
            THEN [raised |-> FALSE, bulb |-> state,
                  result |-> [success |-> FALSE,
                              message |-> [text |-> "brightness parameter required"]]]
            ELSE LET i == IntOf(parameters.brightness)
                 IN IF ~i.ok
                    THEN [raised |-> TRUE, exc |-> i.exc, bulb |-> state]
                    ELSE [raised |-> FALSE] @@ set_brightness(state, i.n)
      [] OTHER ->
            [raised |-> FALSE, bulb |-> state,
             result |-> [success |-> FALSE,
                         message |-> [text |-> "Unknown action: ", action |-> action],
                         state |-> get_status(state)]]

\* the topic _publish_response builds from _response_topic_prefix
ResponseTopic(request_id) ==
    [device |-> ConfigDeviceId, channel |-> "responses", request_id |-> request_id]

\* the JSON object _publish_response serialises
ResponsePayload(request_id, success, message, state) ==
    [request_id |-> request_id, success |-> success, message |-> message,
     state |-> state, timestamp |-> "now"]

\* a publisher that drops failure responses
publish_response_DropsFailures(conn, request_id, success, message, state, pubOk) ==
    IF conn = "None" \/ ~pubOk \/ ~success THEN <<>>
    ELSE <<[kind |-> "response", topic |-> ResponseTopic(request_id),
            payload |-> ResponsePayload(request_id, success, message, state)]>>

\* a _publish_response that publishes whether or not the bridge holds a
\* connection
publish_response_NoConnectionCheck(conn, request_id, success, message, state, pubOk) ==
    IF ~pubOk THEN <<>>
    ELSE << [kind |-> "response", topic |-> ResponseTopic(request_id),
             payload |-> ResponsePayload(request_id, success, message, state)] >>

\* IoTBridge._publish_response: the publishes it adds; nothing without a
\* connection, nothing when the publish fails (the error is logged)
publish_response(conn, request_id, success, message, state, pubOk) ==
    IF conn = "None" \/ ~pubOk THEN <<>>
    ELSE <<[kind |-> "response", topic |-> ResponseTopic(request_id),
            payload |-> ResponsePayload(request_id, success, message, state)]>>

\* the except clause of _handle_command: data.get("request_id", "unknown")
\* when data is bound, which raises again when data is not a dict
ExceptClause(parsed, exc, conn, state, pubOk) ==
    IF parsed.bound /\ parsed.data.t # "object"
    THEN [bulb |-> state, out |-> <<>>, raised |-> TRUE, success |-> FALSE,
          shadowFailed |-> FALSE]
    ELSE LET rid == IF parsed.bound
                    THEN RequestIdOf(parsed.data, JStr("unknown"))
                    ELSE JStr("unknown")
         IN [bulb |-> state, raised |-> FALSE, success |-> FALSE,
             shadowFailed |-> FALSE,
             out |-> publish_response(conn, rid, FALSE,
                                      [text |-> "exception", exc |-> exc],
                                      EmptyDict, pubOk)]

\* a handler that never updates the shadow
UpdateAfterCommand_Skips(success, st, sm, shadowOk) ==
    [called |-> FALSE, raised |-> FALSE, out |-> <<>>]

\* a shadow update whose failure raises out of update_reported
UpdateAfterCommand_Raises(success, st, sm, shadowOk) ==
    IF success /\ sm # "None"
    THEN [called |-> TRUE, raised |-> ~shadowOk,
          out |-> update_reported(ReportedState(st), shadowOk)]
    ELSE [called |-> FALSE, raised |-> FALSE, out |-> <<>>]

\* the shadow update that ends the try block of _handle_command:
\* update_reported is called after a successful action when the bridge holds
\* a shadow manager, and returns False instead of raising
UpdateAfterCommand(success, st, sm, shadowOk) ==
    IF success /\ sm # "None"
    THEN [called |-> TRUE, raised |-> FALSE,
          out |-> update_reported(ReportedState(st), shadowOk)]
    ELSE [called |-> FALSE, raised |-> FALSE, out |-> <<>>]

\* IoTBridge._handle_command: the new bulb state, the messages published and
\* whether an exception escapes the coroutine
handle_command(cmd, state, conn, sm, pubOk, shadowOk) ==
    LET parsed == ParsePayload(cmd.payload)
    IN IF ~parsed.bound
       THEN ExceptClause(parsed, parsed.exc, conn, state, pubOk)
       ELSE IF parsed.data.t # "object"
       THEN ExceptClause(parsed, "AttributeError", conn, state, pubOk)
       ELSE LET request_id == RequestIdOf(parsed.data, GeneratedId)
                parameters == ParametersOf(parsed.data)
                h          == RunHandler(cmd.action, parameters, state)
            IN IF h.raised
               THEN ExceptClause(parsed, h.exc, conn, h.bulb, pubOk)
               ELSE LET success == h.result.success
                        st      == StateOf(h.result)
                        resp    == publish_response(conn, request_id, success,
                                                    h.result.message, st, pubOk)
                        u       == UpdateAfterCommand(success, st, sm, shadowOk)
                        e       == ExceptClause(parsed, "Exception", conn,
                                                h.bulb, pubOk)
                    IN IF u.raised
                       THEN [e EXCEPT !.out = resp \o u.out \o @,
                                      !.success = success,
                                      !.shadowFailed = TRUE]
                       ELSE [bulb |-> h.bulb, raised |-> FALSE,
                             success |-> success,
                             shadowFailed |-> u.called /\ ~shadowOk,
                             out |-> resp \o u.out]

\* a callback that handles the command itself, on the SDK's thread
on_message_Inline(cmd) ==
    /\ Fires("commands")
    /\ LET r == handle_command(cmd, bulb, connection, shadow_manager, TRUE, TRUE)
       IN /\ bulb' = r.bulb
          /\ last' = [Idle EXCEPT !.op = "on_message", !.ctx = "sdk",
                        !.pre = bulb,
                        !.cmd = cmd, !.out = r.out, !.raised = r.raised]
    /\ UNCHANGED <<reconnect_delay, disabled, running, connection,
                   shadow_manager, loop, link, queue, io, others, failsSinceReset>>

\* the on_message callback _subscribe_to_commands registers with the SDK
on_message(cmd) ==
    /\ Fires("commands")
    /\ Len(queue) < MaxQueue
    /\ queue' = schedule_coroutine(queue, [kind |-> "command", cmd |-> cmd])
    /\ last' = [Idle EXCEPT !.op = "on_message", !.ctx = "sdk", !.pre = bulb]
    /\ UNCHANGED <<reconnect_delay, disabled, running, connection,
                   shadow_manager, loop, bulb, io, others, link, failsSinceReset>>

----------------------------------------------------------------------------
(* Shadow deltas *)

\* a delta whose only top-level key is a device id, with that device's patch
\* under it: to code that looks for "is_on" and "brightness" at the top
\* level it is a document with one other key
PerDevice(device, patch) ==
    [t |-> "dict", is_on |-> Absent, brightness |-> Absent, other |-> TRUE,
     devices |-> [d \in {device} |-> patch]]

\* the desired-state documents the broker sends as delta in this model
Deltas ==
    { JDict(JBool(TRUE), Absent, FALSE),
      JDict(JBool(FALSE), JInt(50), FALSE),
      JDict(Absent, JInt(150), FALSE),
      JDict(Absent, JStr("abc"), FALSE),
      JDict(Absent, Absent, TRUE),
      PerDevice(ConfigDeviceId, JDict(Absent, JInt(50), FALSE)) }

\* MockTapoBulb.apply_desired_state: the new bulb state, and whether int()
\* raised
bulb_apply_desired_state(desired, state) ==
    LET s1 == IF desired.is_on = Absent THEN state
              ELSE IF desired.is_on.b THEN turn_on(state).bulb
              ELSE turn_off(state).bulb
    IN IF desired.brightness = Absent
       THEN [bulb |-> s1, raised |-> FALSE]
       ELSE IF ~IntOf(desired.brightness).ok
       THEN [bulb |-> s1, raised |-> TRUE]
       ELSE [bulb |-> set_brightness(s1, IntOf(desired.brightness).n).bulb,
             raised |-> FALSE]

\* a delta handler that reads a missing "is_on" as false
apply_desired_state_DefaultsMissing(desired, state, sm, shadowOk) ==
    LET s1 == IF desired.is_on # Absent /\ desired.is_on.b
              THEN turn_on(state).bulb
              ELSE turn_off(state).bulb
    IN [bulb |-> s1, raised |-> FALSE,
        out |-> report_current_state(sm, s1, shadowOk)]

\* IoTBridge._apply_desired_state: the new bulb state and the publishes
apply_desired_state(desired, state, sm, shadowOk) ==
    LET s1 == IF desired.is_on = Absent THEN state
              ELSE IF desired.is_on.b THEN turn_on(state).bulb
              ELSE turn_off(state).bulb
        i  == IF desired.brightness = Absent
              THEN [ok |-> TRUE, n |-> s1.brightness]
              ELSE IntOf(desired.brightness)
    IN IF ~i.ok
       THEN [bulb |-> s1, out |-> <<>>, raised |-> FALSE]
       ELSE LET s2 == IF desired.brightness = Absent THEN s1
                      ELSE set_brightness(s1, i.n).bulb
            IN [bulb |-> s2, raised |-> FALSE,
                out |-> report_current_state(sm, s2, shadowOk)]

\* ShadowManager.subscribe_to_delta.on_delta followed by
\* IoTBridge._on_shadow_delta
on_shadow_delta(delta) ==
    /\ Fires("delta")
    /\ Len(queue) < MaxQueue
    /\ queue' = schedule_coroutine(queue, [kind |-> "delta", desired |-> delta])
    /\ last' = [Idle EXCEPT !.op = "on_delta", !.ctx = "sdk", !.pre = bulb]
    /\ UNCHANGED <<reconnect_delay, disabled, running, connection,
                   shadow_manager, loop, bulb, io, others, link, failsSinceReset>>

----------------------------------------------------------------------------
(* The event loop runs the coroutine at the head of the queue *)

RunReport(shadowOk) ==
    /\ Head(queue).kind = "report"
    /\ last' = [Idle EXCEPT !.op = "report",
                  !.out = report_current_state(shadow_manager, bulb, shadowOk)]
    /\ UNCHANGED bulb

RunCommand(pubOk, shadowOk) ==
    /\ Head(queue).kind = "command"
    /\ LET cmd == Head(queue).cmd
           r   == handle_command(cmd, bulb, connection, shadow_manager,
                                 pubOk, shadowOk)
       IN /\ bulb' = r.bulb
          /\ last' = [Idle EXCEPT !.op = "command", !.pre = bulb, !.cmd = cmd,
                        !.out = r.out, !.raised = r.raised,
                        !.conn = (connection # "None"), !.pubOk = pubOk,
                        !.success = r.success,
                        !.sm = (shadow_manager # "None"),
                        !.shadowFailed = r.shadowFailed]

RunDelta(shadowOk) ==
    /\ Head(queue).kind = "delta"
    /\ LET r == apply_desired_state(Head(queue).desired, bulb,
                                    shadow_manager, shadowOk)
       IN /\ bulb' = r.bulb
          /\ last' = [Idle EXCEPT !.op = "delta", !.pre = bulb, !.out = r.out,
                        !.raised = r.raised,
                        !.desired = Head(queue).desired]

RunTask ==
    /\ queue # <<>>
    /\ queue' = Tail(queue)
    /\ \E pubOk, shadowOk \in BOOLEAN :
          \/ RunReport(shadowOk)
          \/ RunCommand(pubOk, shadowOk)
          \/ RunDelta(shadowOk)
    /\ UNCHANGED <<reconnect_delay, disabled, running, connection,
                   shadow_manager, loop, link, io, others, failsSinceReset>>

----------------------------------------------------------------------------
(* Command handlers on the real bulb (TapoBulb): every device call awaits   *)
(* network I/O, so a handler is suspended there and other coroutines run;   *)
(* the suspended handlers resume in the order their I/O completes           *)

\* the commands delivered to a bridge that drives the real bulb
IoCommands ==
    { Command(ConfigDeviceId, a, JObject(JStr("r1"), Absent)) :
         a \in {"turn_on", "turn_off"} }
    \cup
    { Command(ConfigDeviceId, "set_brightness", JObject(JStr("r1"), p)) :
         p \in {EmptyJDict, Brightness(JInt(50))} }

\* the first device call a command's handler awaits: "device" for on(),
\* off() and set_brightness(), "info" for get_device_info(), "none" when the
\* handler answers, or raises, before any device call
FirstAwait(cmd) ==
    LET parsed == ParsePayload(cmd.payload)
    IN IF ~parsed.bound \/ parsed.data.t # "object" THEN "none"
       ELSE LET parameters == ParametersOf(parsed.data)
            IN CASE cmd.action \in {"turn_on", "turn_off"} -> "device"
                 [] cmd.action = "set_brightness" ->
                       IF /\ parameters.t = "dict"
                          /\ parameters.brightness # Absent
                          /\ IntOf(parameters.brightness).ok
                          /\ IntOf(parameters.brightness).n \in 0..100
                       THEN "device" ELSE "none"
                 [] OTHER -> "info"

\* the on_message callback, numbering the commands in delivery order
on_message_io(cmd) ==
    /\ link.connected /\ link.up /\ link.commands
    /\ Len(queue) < MaxQueue
    /\ io.delivered < MaxIoCommands
    /\ queue' = schedule_coroutine(queue, [kind |-> "command", cmd |-> cmd,
                                           id |-> io.delivered + 1])
    /\ io' = [io EXCEPT !.delivered = @ + 1]
    /\ last' = [Idle EXCEPT !.op = "on_message", !.ctx = "sdk", !.pre = bulb]
    /\ UNCHANGED <<reconnect_delay, disabled, running, connection,
                   shadow_manager, loop, bulb, link, failsSinceReset, others>>

\* the loop starts the handler at the head of the queue: _handle_command up
\* to its first device call, where it is suspended; a handler without a
\* device call runs to its end and publishes its response
begin_command ==
    /\ queue # <<>>
    /\ Head(queue).kind = "command" /\ "id" \in DOMAIN Head(queue)
    /\ queue' = Tail(queue)
    /\ LET t == Head(queue)
           r == handle_command(t.cmd, bulb, connection, shadow_manager, TRUE, TRUE)
       IN IF FirstAwait(t.cmd) = "none"
          THEN /\ io' = [io EXCEPT !.log = Append(@,
                            [ev |-> "response", id |-> t.id,
                             published |->
                                \E i \in DOMAIN r.out :
                                    r.out[i].kind = "response"])]
               /\ last' = [Idle EXCEPT !.op = "command", !.pre = bulb, !.cmd = t.cmd,
                             !.out = r.out, !.raised = r.raised,
                             !.conn = (connection # "None"), !.pubOk = TRUE,
                             !.success = r.success,
                             !.sm = (shadow_manager # "None")]
          ELSE /\ io' = [io EXCEPT !.inflight = @ \cup
                            {[id |-> t.id, cmd |-> t.cmd,
                              awaiting |-> FirstAwait(t.cmd)]}]
               /\ last' = [Idle EXCEPT !.op = "begin", !.cmd = t.cmd]
    /\ UNCHANGED <<reconnect_delay, disabled, running, connection,
                   shadow_manager, loop, bulb, link, failsSinceReset, others>>

\* TapoBulb.turn_on / turn_off / set_brightness: the device call of a
\* suspended handler completes, the bulb has changed, and the handler goes
\* on to await get_device_info() in get_status
device_io_done ==
  \E h \in io.inflight :
    /\ h.awaiting = "device"
    /\ bulb' = RunHandler(h.cmd.action,
                          ParametersOf(ParsePayload(h.cmd.payload).data),
                          bulb).bulb
    /\ io' = [io EXCEPT
                !.inflight = (@ \ {h}) \cup {[h EXCEPT !.awaiting = "info"]},
                !.log = Append(@, [ev |-> "effect", id |-> h.id,
                                   published |-> TRUE])]
    /\ last' = [Idle EXCEPT !.op = "device_io", !.pre = bulb, !.cmd = h.cmd]
    /\ UNCHANGED <<reconnect_delay, disabled, running, connection,
                   shadow_manager, loop, link, queue, failsSinceReset, others>>

\* TapoBulb.get_status completes with the bulb's state as it is now; the
\* handler returns its result, and _handle_command publishes the response
\* and updates the shadow
info_done ==
  \E h \in io.inflight :
    /\ h.awaiting = "info"
    /\ LET result == RunHandler(h.cmd.action,
                                ParametersOf(ParsePayload(h.cmd.payload).data),
                                bulb).result
           st     == get_status(bulb)
           resp   == publish_response(
                         connection,
                         RequestIdOf(ParsePayload(h.cmd.payload).data, GeneratedId),
                         result.success, result.message, st, TRUE)
           u      == UpdateAfterCommand(result.success, st, shadow_manager, TRUE)
       IN /\ io' = [io EXCEPT
                      !.inflight = @ \ {h},
                      !.log = Append(@, [ev |-> "response", id |-> h.id,
                                         published |-> resp # <<>>])]
          /\ last' = [Idle EXCEPT !.op = "command", !.pre = bulb, !.cmd = h.cmd,
                        !.out = resp \o u.out,
                        !.conn = (connection # "None"), !.pubOk = TRUE,
                        !.success = result.success,
                        !.sm = (shadow_manager # "None")]
    /\ UNCHANGED <<reconnect_delay, disabled, running, connection,
                   shadow_manager, loop, bulb, link, queue, failsSinceReset, others>>

----------------------------------------------------------------------------
(* MockTapoBulb on its own: execute, the direct calls, and the state file *)

\* the brightness values a caller passes
DeviceBrightness == {-1, 0, 50, 100, 101}

\* the action names a caller passes: the supported ones and an unknown one
DeviceActions == {"turn_on", "turn_off", "get_status", "set_brightness", "blink"}

\* the parameter maps a caller passes
DeviceParameters ==
    {EmptyJDict, Brightness(JStr("abc"))}
        \cup { Brightness(JInt(n)) : n \in DeviceBrightness }

\* what a write of the state file can do: succeed, fail before the file is
\* opened (the file keeps its content), fail after it was truncated
SaveOutcomes == {"ok", "unopened", "truncated"}

\* MockTapoBulb.supported_actions
supported_actions == {"turn_on", "turn_off", "get_status", "set_brightness"}

\* MockTapoBulb.get_shadow_state
get_shadow_state(state) ==
    [is_on |-> state.is_on, brightness |-> state.brightness,
     color_temp |-> state.color_temp]

\* MockTapoBulb._load_state: a missing or unreadable file gives the defaults
load_state(file) ==
    IF file.t = "json" THEN file.state ELSE DefaultState

\* MockTapoBulb._save_state: the IOError of a failed write is logged only
save_state(state, file, outcome) ==
    CASE outcome = "ok"        -> JsonFile(state)
      [] outcome = "unopened"  -> file
      [] outcome = "truncated" -> CorruptFile

\* MockTapoBulb.execute: the bulb's new state and the result dict, or the
\* exception that leaves execute
execute(action, parameters, state) ==
    IF action \notin supported_actions
    THEN [raised |-> FALSE, bulb |-> state,
          result |-> [success |-> FALSE,
                      message |-> [text |-> "Unknown action: ", action |-> action],
                      state |-> get_shadow_state(state)]]
    ELSE CASE action = "turn_on"  -> [raised |-> FALSE] @@ turn_on(state)
           [] action = "turn_off" -> [raised |-> FALSE] @@ turn_off(state)
           [] action = "set_brightness" ->
                 IF parameters.brightness = Absent
                 THEN [raised |-> FALSE, bulb |-> state,
                       result |-> [success |-> FALSE,
                                   message |-> [text |-> "brightness parameter required"],
                                   state |-> get_shadow_state(state)]]
                 ELSE LET i == IntOf(parameters.brightness)
                      IN IF ~i.ok
                         THEN [raised |-> TRUE, exc |-> i.exc, bulb |-> state]
                         ELSE [raised |-> FALSE] @@ set_brightness(state, i.n)
           [] action = "get_status" ->
                 [raised |-> FALSE, bulb |-> state,
                  result |-> [success |-> TRUE,
                              message |-> [text |-> "Status retrieved"],
                              state |-> get_status(state)]]

\* the mutating methods write the state file before they return; a rejected
\* set_brightness returns before the write
Saves(action, r) ==
    /\ action \in {"turn_on", "turn_off", "set_brightness"}
    /\ ~r.raised
    /\ r.result.success

\* a caller runs device.execute(action, parameters)
device_execute(action, parameters, outcome) ==
    LET r == execute(action, parameters, dev.state)
    IN /\ dev' = [state |-> r.bulb,
                  file |-> IF Saves(action, r)
                           THEN save_state(r.bulb, dev.file, outcome)
                           ELSE dev.file,
                  last |-> [op |-> "execute", action |-> action,
                            parameters |-> parameters,
                            result |-> IF r.raised THEN Absent ELSE r.result,
                            raised |-> r.raised,
                            outcome |-> IF Saves(action, r) THEN outcome ELSE "ok",
                            pre |-> dev.state, prefile |-> dev.file]]
       /\ UNCHANGED <<bridgeVars, reg, sh, lg, cl, rc, hr>>

\* a caller runs device.set_brightness(brightness)
device_set_brightness(brightness, outcome) ==
    LET r == [raised |-> FALSE] @@ set_brightness(dev.state, brightness)
    IN /\ dev' = [state |-> r.bulb,
                  file |-> IF Saves("set_brightness", r)
                           THEN save_state(r.bulb, dev.file, outcome)
                           ELSE dev.file,
                  last |-> [op |-> "set_brightness", action |-> "set_brightness",
                            parameters |-> Brightness(JInt(brightness)),
                            result |-> r.result, raised |-> FALSE,
                            outcome |-> IF Saves("set_brightness", r)
                                        THEN outcome ELSE "ok",
                            pre |-> dev.state, prefile |-> dev.file]]
       /\ UNCHANGED <<bridgeVars, reg, sh, lg, cl, rc, hr>>

\* the desired documents a caller passes to apply_desired_state
DeviceDesired ==
    { JDict(JBool(TRUE), Absent, FALSE),
      JDict(JBool(FALSE), JInt(0), FALSE),
      JDict(Absent, JInt(150), FALSE),
      JDict(JBool(TRUE), JStr("abc"), FALSE),
      JDict(Absent, Absent, TRUE) }

\* a caller runs device.apply_desired_state(desired); the state file is
\* written by turn_on, turn_off and an accepted set_brightness
device_apply_desired_state(desired, outcome) ==
    LET r == bulb_apply_desired_state(desired, dev.state)
        written == \/ desired.is_on # Absent
                   \/ /\ desired.brightness # Absent
                      /\ ~r.raised
                      /\ IntOf(desired.brightness).n \in 0..100
    IN /\ dev' = [state |-> r.bulb,
                  file |-> IF written
                           THEN save_state(r.bulb, dev.file, outcome)
                           ELSE dev.file,
                  last |-> [op |-> "apply_desired_state", action |-> "",
                            parameters |-> desired, result |-> Absent,
                            raised |-> r.raised,
                            outcome |-> IF written THEN outcome ELSE "ok",
                            pre |-> dev.state, prefile |-> dev.file]]
       /\ UNCHANGED <<bridgeVars, reg, sh, lg, cl, rc, hr>>

\* MockTapoBulb.__init__ on the same state file: the new device replaces
\* the old one
device_construct ==
    /\ dev' = [state |-> load_state(dev.file), file |-> dev.file,
               last |-> [op |-> "construct", action |-> "",
                         parameters |-> Absent, result |-> Absent,
                         raised |-> FALSE, outcome |-> "ok",
                         pre |-> dev.state, prefile |-> dev.file]]
    /\ UNCHANGED <<bridgeVars, reg, sh, lg, cl, rc, hr>>

----------------------------------------------------------------------------
(* DeviceRegistry *)

\* Python dict operations on a dict kept as a sequence of entries: key in d,
\* d.get(key), d[key] = value, d.pop(key, None)
DictHas(dct, key) == \E i \in DOMAIN dct : dct[i].id = key

DictGet(dct, key) ==
    IF DictHas(dct, key)
    THEN dct[CHOOSE i \in DOMAIN dct : dct[i].id = key].device
    ELSE "None"

DictSet(dct, key, value) ==
    IF DictHas(dct, key)
    THEN [i \in DOMAIN dct |->
            IF dct[i].id = key THEN [id |-> key, device |-> value] ELSE dct[i]]
    ELSE Append(dct, [id |-> key, device |-> value])

DictPop(dct, key) ==
    LET Kept(e) == e.id # key IN SelectSeq(dct, Kept)

\* a register that replaces the entry of an id already present
register_Replaces(devices, device_id, device) ==
    [raised |-> FALSE, devices |-> DictSet(devices, device_id, device)]

\* DeviceRegistry.register: ValueError when the id is present
register(devices, device_id, device) ==
    IF DictHas(devices, device_id)
    THEN [raised |-> TRUE, exc |-> "ValueError", devices |-> devices]
    ELSE [raised |-> FALSE, devices |-> DictSet(devices, device_id, device)]

\* DeviceRegistry.unregister: the removed device or None
unregister(devices, device_id) ==
    [returned |-> DictGet(devices, device_id),
     devices |-> DictPop(devices, device_id)]

\* DeviceRegistry.get, __contains__, __len__, list_device_ids
get(devices, device_id) == DictGet(devices, device_id)

contains(devices, device_id) == DictHas(devices, device_id)

len(devices) == Len(devices)

list_device_ids(devices) == [i \in DOMAIN devices |-> devices[i].id]

\* a get_all that hands out the registry's own dict
get_all_Alias(devices) == [ref |-> "_devices"]

\* DeviceRegistry.get_all: a new dict object with the same entries
get_all(devices) == [ref |-> "copy", dict |-> devices]

registry_register(device_id, device) ==
    LET r == register(reg.devices, device_id, device)
    IN /\ reg' = [reg EXCEPT !.devices = r.devices,
                             !.last = [op |-> "register", id |-> device_id,
                                       device |-> device, raised |-> r.raised,
                                       returned |-> "None",
                                       pre |-> reg.devices]]
       /\ UNCHANGED <<bridgeVars, dev, sh, lg, cl, rc, hr>>

registry_unregister(device_id) ==
    LET r == unregister(reg.devices, device_id)
    IN /\ reg' = [reg EXCEPT !.devices = r.devices,
                             !.removed = IF r.returned # "None"
                                         THEN @ \cup {device_id} ELSE @,
                             !.last = [op |-> "unregister", id |-> device_id,
                                       device |-> "None", raised |-> FALSE,
                                       returned |-> r.returned,
                                       pre |-> reg.devices]]
       /\ UNCHANGED <<bridgeVars, dev, sh, lg, cl, rc, hr>>

registry_get_all ==
    /\ reg' = [reg EXCEPT !.held = get_all(reg.devices),
                          !.last = [op |-> "get_all", id |-> "",
                                    device |-> "None", raised |-> FALSE,
                                    returned |-> "None", pre |-> reg.devices]]
    /\ UNCHANGED <<bridgeVars, dev, sh, lg, cl, rc, hr>>

\* the caller of get_all changes the dict it was given: it stores a device
\* under an id, or deletes an id (device = "None")
caller_mutates(device_id, device) ==
    /\ reg.held.ref # "none"
    /\ LET Changed(dct) == IF device = "None" THEN DictPop(dct, device_id)
                           ELSE DictSet(dct, device_id, device)
           hist == [op |-> "mutate", id |-> device_id, device |-> device,
                    raised |-> FALSE, returned |-> "None",
                    pre |-> reg.devices]
       IN IF reg.held.ref = "copy"
          THEN reg' = [reg EXCEPT !.held.dict = Changed(@), !.last = hist]
          ELSE reg' = [reg EXCEPT !.devices = Changed(@), !.last = hist]
    /\ UNCHANGED <<bridgeVars, dev, sh, lg, cl, rc, hr>>

----------------------------------------------------------------------------
(* ShadowManager and the shadow client it talks to *)

\* the state maps passed to update_reported
ShadowStates == { [is_on |-> TRUE], [is_on |-> FALSE, brightness |-> 50] }

\* the state maps of delta events; the first is an event without state
DeltaStates == { EmptyDict, [is_on |-> TRUE], [brightness |-> 50] }

\* the versions events and responses carry; 0 stands for an event without
\* a version
ShadowVersions == 0..MaxVersion

\* how update_reported can fail: the client cannot be made, the request
\* cannot be serialized, the publish raises, the acknowledgement does not
\* come within the timeout (the request being lost, or delivered all the same)
UpdateFaults == {"none", "client", "serialize", "publish",
                 "timeout_lost", "timeout_delivered"}

\* how subscribe_to_delta can fail: the client cannot be made, the subscribe
\* raises, the acknowledgement does not come within the timeout
SubscribeFaults == {"none", "client", "subscribe", "timeout"}

\* a request that writes the desired section as well
UpdateShadowRequest_WithDesired(state) == [reported |-> state, desired |-> state]

\* the UpdateShadowRequest update_reported builds: ShadowState(reported=state)
UpdateShadowRequest(state) == [reported |-> state]

\* an update_reported that lets the failure out
ShadowManager_update_reported_Propagates(state, fault) ==
    [result |-> fault = "none",
     raised |-> fault # "none",
     sent |-> IF fault \in {"none", "timeout_delivered"}
              THEN <<UpdateShadowRequest(state)>> ELSE <<>>]

\* ShadowManager.update_reported with what goes wrong in it: the value it
\* returns, whether an exception leaves it, the requests that reach the
\* shadow client
ShadowManager_update_reported(state, fault) ==
    [result |-> fault = "none",
     raised |-> FALSE,
     sent |-> IF fault \in {"none", "timeout_delivered"}
              THEN <<UpdateShadowRequest(state)>> ELSE <<>>]

\* MockShadowClient.publish_update_shadow: a non-empty reported section
\* becomes the last reported state, nothing else of the document is written
publish_update_shadow(doc, request) ==
    IF request.reported # EmptyDict
    THEN [doc EXCEPT !.reported = request.reported]
    ELSE doc

\* an on_delta that invokes the callback twice
on_delta_Twice(state, version, sm) ==
    IF state # EmptyDict
    THEN [version |-> IF version # 0 THEN version ELSE sm.version,
          calls |-> IF sm.delta_callback
                    THEN sm.calls \o <<state, state>> ELSE sm.calls]
    ELSE [version |-> sm.version, calls |-> sm.calls]

\* the on_delta closure of subscribe_to_delta: an event whose state is empty
\* or missing is dropped, a version that is missing or 0 is not recorded
on_delta(state, version, sm) ==
    IF state # EmptyDict
    THEN [version |-> IF version # 0 THEN version ELSE sm.version,
          calls |-> IF sm.delta_callback
                    THEN Append(sm.calls, state) ELSE sm.calls]
    ELSE [version |-> sm.version, calls |-> sm.calls]

\* the on_accepted closure of get_shadow: the version of the response,
\* unless it is missing or 0, replaces _current_version
on_accepted(version, sm) ==
    IF version # 0 THEN version ELSE sm.version

\* the part of the manager and of the document an operation is compared with
Before == [version |-> sh.version, calls |-> sh.calls, doc |-> sh.doc]

\* a caller awaits shadow_manager.update_reported(state)
shadow_update_reported(state, fault) ==
    LET r == ShadowManager_update_reported(state, fault)
        Delivered(doc) == IF r.sent = <<>> THEN doc
                          ELSE publish_update_shadow(doc, r.sent[1])
    IN /\ sh' = [sh EXCEPT
                   !.doc = Delivered(@),
                   !.last = [op |-> "update_reported", result |-> r.result,
                             raised |-> r.raised, state |-> state,
                             version |-> 0, request |-> r.sent,
                             repeat |-> /\ sh.last.op = "update_reported"
                                        /\ sh.last.request # <<>>
                                        /\ sh.last.state = state,
                             fault |-> fault, pre |-> Before]]
       /\ UNCHANGED <<bridgeVars, dev, reg, lg, cl, rc, hr>>

\* a caller awaits shadow_manager.subscribe_to_delta(callback)
shadow_subscribe_to_delta(fault) ==
    /\ sh' = [sh EXCEPT
                !.delta_callback = @ \/ fault # "client",
                !.listeners = IF fault \in {"none", "timeout"} THEN 1 ELSE @,
                !.last = [op |-> "subscribe_to_delta", result |-> fault = "none",
                          raised |-> FALSE, state |-> EmptyDict,
                          version |-> 0, request |-> <<>>, repeat |-> FALSE,
                          fault |-> fault, pre |-> Before]]
    /\ UNCHANGED <<bridgeVars, dev, reg, lg, cl, rc, hr>>

\* the client delivers a delta event to the registered listener
deliver_delta(state, version) ==
    /\ sh.listeners > 0
    /\ Len(sh.calls) < MaxDeltaCalls
    /\ LET r == on_delta(state, version, sh)
       IN sh' = [sh EXCEPT
                   !.version = r.version,
                   !.calls = r.calls,
                   !.last = [op |-> "delta", result |-> FALSE,
                             raised |-> FALSE, state |-> state,
                             version |-> version, request |-> <<>>,
                             repeat |-> FALSE, fault |-> "none",
                             pre |-> Before]]
    /\ UNCHANGED <<bridgeVars, dev, reg, lg, cl, rc, hr>>

\* a caller awaits shadow_manager.get_shadow(): without a fault the accepted
\* listener is registered and the get request published
shadow_get_shadow(fault) ==
    /\ sh' = [sh EXCEPT
                !.accepted = @ \/ fault = "none",
                !.last = [op |-> "get_shadow", result |-> fault = "none",
                          raised |-> FALSE, state |-> EmptyDict,
                          version |-> 0, request |-> <<>>, repeat |-> FALSE,
                          fault |-> fault, pre |-> Before]]
    /\ UNCHANGED <<bridgeVars, dev, reg, lg, cl, rc, hr>>

\* the client delivers a get-shadow response to the accepted listener
deliver_accepted(version) ==
    /\ sh.accepted
    /\ sh' = [sh EXCEPT
                !.version = on_accepted(version, sh),
                !.last = [op |-> "accepted", result |-> FALSE,
                          raised |-> FALSE, state |-> EmptyDict,
                          version |-> version, request |-> <<>>,
                          repeat |-> FALSE, fault |-> "none",
                          pre |-> Before]]
    /\ UNCHANGED <<bridgeVars, dev, reg, lg, cl, rc, hr>>

\* the desired section is written from outside the bridge
set_desired(desired) ==
    /\ sh' = [sh EXCEPT
                !.doc.desired = desired,
                !.last = [op |-> "set_desired", result |-> FALSE,
                          raised |-> FALSE, state |-> desired,
                          version |-> 0, request |-> <<>>, repeat |-> FALSE,
                          fault |-> "none", pre |-> Before]]
    /\ UNCHANGED <<bridgeVars, dev, reg, lg, cl, rc, hr>>

----------------------------------------------------------------------------
(* DynamoStateLogger *)

\* dict.get(key, default) on a dict kept as a function
GetOr(dct, key, default) == IF key \in DOMAIN dct THEN dct[key] ELSE default

\* the result dicts handed to log_state_change: a command that succeeded, one
\* that failed (send_command's empty state), one whose state holds a
\* brightness that is no number
LogResults ==
    { [success |-> TRUE,
       state |-> [is_on |-> JBool(TRUE), brightness |-> JInt(50),
                  color_temp |-> JInt(2700)]],
      [success |-> FALSE, state |-> EmptyDict],
      [success |-> TRUE,
       state |-> [is_on |-> JBool(TRUE), brightness |-> JStr("abc"),
                  color_temp |-> JInt(2700)]] }

\* the actions logged
LogActions == {"turn_on", "set_brightness"}

\* what the environment makes fail in a call: nothing, the creation of the
\* session and table resource, put_item
LogFaults == {"none", "session", "put"}

\* Decimal(str(v)): defined for numbers, InvalidOperation otherwise
DecimalOf(v) ==
    IF v.t = "int" THEN [ok |-> TRUE, n |-> v.n]
    ELSE [ok |-> FALSE, exc |-> "InvalidOperation"]

\* the item log_state_change builds from a result
ItemOf(device_id, action, result) ==
    LET state == GetOr(result, "state", EmptyDict)
        success == GetOr(result, "success", FALSE)
        b == DecimalOf(GetOr(state, "brightness", JInt(0)))
        c == DecimalOf(GetOr(state, "color_temp", JInt(0)))
    IN IF ~b.ok \/ ~c.ok
       THEN [ok |-> FALSE]
       ELSE [ok |-> TRUE,
             item |-> [device_id |-> device_id, action |-> action,
                       is_on |-> success /\ GetOr(state, "is_on", JBool(FALSE)).b,
                       brightness |-> b.n, color_temp |-> c.n,
                       success |-> success]]

\* a log_state_change that goes on trying when the logger is disabled
log_state_change_NoGuard(logger, device_id, action, result, fault) ==
    LET tableOk == logger.table # "None" \/ fault # "session"
        it == ItemOf(device_id, action, result)
        failed == ~tableOk \/ ~it.ok \/ fault = "put"
    IN [disabled |-> logger.disabled \/ failed,
        table |-> IF tableOk THEN "table" ELSE logger.table,
        items |-> IF failed THEN logger.items
                  ELSE logger.items \cup {it.item},
        attempted |-> TRUE, failed |-> failed, raised |-> FALSE]

\* DynamoStateLogger.log_state_change: nothing when disabled; otherwise
\* _get_table, the item, put_item, and any exception of the three disables
\* the logger
log_state_change(logger, device_id, action, result, fault) ==
    IF logger.disabled
    THEN [disabled |-> TRUE, table |-> logger.table, items |-> logger.items,
          attempted |-> FALSE, failed |-> FALSE, raised |-> FALSE]
    ELSE LET tableOk == logger.table # "None" \/ fault # "session"
             it == ItemOf(device_id, action, result)
             failed == ~tableOk \/ ~it.ok \/ fault = "put"
         IN [disabled |-> failed,
             table |-> IF tableOk THEN "table" ELSE logger.table,
             items |-> IF failed THEN logger.items
                       ELSE logger.items \cup {it.item},
             attempted |-> TRUE, failed |-> failed, raised |-> FALSE]

\* a caller awaits state_logger.log_state_change(device_id, action, result)
logger_log_state_change(action, result, fault) ==
    LET r == log_state_change(lg, "tapo-bulb-default", action, result, fault)
    IN /\ lg' = [disabled |-> r.disabled, table |-> r.table,
                 items |-> r.items,
                 last |-> [op |-> "log", raised |-> r.raised,
                           attempted |-> r.attempted, failed |-> r.failed,
                           fault |-> fault,
                           pre |-> [disabled |-> lg.disabled,
                                    items |-> lg.items]]]
       /\ UNCHANGED <<bridgeVars, dev, reg, sh, cl, rc, hr>>

----------------------------------------------------------------------------
(* The cloud adapter (send_command, get_device_state) and the serverless   *)
(* handler, with the broker, the shadow and a bridge behind them           *)

\* the cloud adapter's get_device_state on a shadow whose reported document
\* is the given one: the device's fields, or None when the document has no
\* entry for the device under "devices"
get_device_state(device_id, reported) ==
    LET devices == IF "devices" \in DOMAIN reported
                   THEN reported.devices ELSE EmptyDict
    IN IF device_id \notin DOMAIN devices
       THEN [t |-> "None"]
       ELSE LET device_state == devices[device_id]
            IN [t |-> "state",
                is_on |-> IF "is_on" \in DOMAIN device_state
                          THEN device_state.is_on ELSE FALSE,
                brightness |-> IF "brightness" \in DOMAIN device_state
                               THEN device_state.brightness ELSE 0,
                color_temp |-> IF "color_temp" \in DOMAIN device_state
                               THEN device_state.color_temp ELSE 0,
                bridge_connected |-> IF "bridge_connected" \in DOMAIN reported
                                     THEN reported.bridge_connected ELSE FALSE]

\* the tool invocations: the command tools, the read tool, an unknown
\* tool, each with the event it comes with
ToolCalls ==
    { [tool_name |-> "turn_on", event |-> EmptyDict],
      [tool_name |-> "turn_off", event |-> EmptyDict],
      [tool_name |-> "set_brightness", event |-> [level |-> JInt(80)]],
      [tool_name |-> "set_brightness", event |-> [brightness |-> JInt(50)]],
      [tool_name |-> "get_status", event |-> EmptyDict],
      [tool_name |-> "dim", event |-> EmptyDict] }

\* a Python value json.dumps has no encoding for (a set, bytes, a Decimal)
PyObject == [t |-> "object"]

\* json.dumps encodes the parameters dict; it raises TypeError otherwise
JsonEncodable(parameters) ==
    \A k \in DOMAIN parameters : parameters[k].t \in {"int", "str", "bool"}

\* the direct send_command calls: an action and its parameters dict
CloudCalls ==
    { [action |-> "turn_on", parameters |-> EmptyDict],
      [action |-> "turn_on", parameters |-> [transition |-> PyObject]],
      [action |-> "set_brightness", parameters |-> [brightness |-> JInt(50)]],
      [action |-> "set_brightness", parameters |-> [brightness |-> JInt(150)]],
      [action |-> "set_brightness", parameters |-> EmptyDict],
      [action |-> "blink", parameters |-> EmptyDict] }

\* the handler's logger runs where it cannot create its table resource
CloudLogFaults == {"session"}

\* a reported document in the format get_device_state reads
ReportedWithDevices(device_id, is_on, brightness) ==
    [bridge_connected |-> TRUE,
     devices |-> [d \in {device_id} |->
                    [is_on |-> is_on, brightness |-> brightness,
                     color_temp |-> 4000, device_reachable |-> TRUE]]]

\* the reported documents the shadow is found with
CloudReported ==
    { EmptyDict,
      ReportedWithDevices(DEVICE_ID, TRUE, 80),
      ReportedWithDevices("other-device", TRUE, 80) }

\* the parameters dict as the bridge finds it in the payload:
\* json.dumps on the cloud side, json.loads on the bridge's
EncodeParameters(parameters) ==
    JDict(Absent,
          IF "brightness" \in DOMAIN parameters
          THEN parameters.brightness ELSE Absent,
          DOMAIN parameters \ {"brightness"} # {})

\* the shadow service merges the keys of an update into the reported document
MergeReported(reported, update) ==
    [k \in DOMAIN reported \cup DOMAIN update |->
        IF k \in DOMAIN update THEN update[k] ELSE reported[k]]

\* the parameters lambda_handler builds for a command tool
lambda_parameters(tool_name, event) ==
    IF tool_name = "set_brightness"
    THEN [level |-> GetOr(event, "level", JInt(100))]
    ELSE EmptyDict

\* a send_command that reads the shadow and reports success whatever the
\* publish did
send_command_IgnoresPublish(device_id, action, parameters, pubOk, state) ==
    IF ~JsonEncodable(parameters)
    THEN [raised |-> TRUE, steps |-> <<>>,
          result |-> [success |-> FALSE, message |-> "", state |-> EmptyDict]]
    ELSE
    [raised |-> FALSE,
     steps |-> <<[call |-> "publish", device |-> device_id, action |-> action],
                 [call |-> "sleep"], [call |-> "get_thing_shadow"]>>,
     result |-> IF state.t = "None"
                THEN [success |-> FALSE,
                      message |-> "Command sent but failed to read back state",
                      state |-> EmptyDict]
                ELSE [success |-> TRUE, message |-> "Command sent",
                      state |-> state]]

\* send_command: the calls it makes on the client, in order, and its result;
\* state is what get_device_state gives after the wait. The payload is
\* built before the try block, so a TypeError of json.dumps escapes and
\* nothing is published.
send_command(device_id, action, parameters, pubOk, state) ==
    IF ~JsonEncodable(parameters)
    THEN [raised |-> TRUE, steps |-> <<>>,
          result |-> [success |-> FALSE, message |-> "", state |-> EmptyDict]]
    ELSE IF ~pubOk
    THEN [raised |-> FALSE,
          steps |-> <<[call |-> "publish", device |-> device_id,
                       action |-> action]>>,
          result |-> [success |-> FALSE,
                      message |-> "Failed to publish command",
                      state |-> EmptyDict]]
    ELSE [raised |-> FALSE,
          steps |-> <<[call |-> "publish", device |-> device_id,
                       action |-> action],
                      [call |-> "sleep"], [call |-> "get_thing_shadow"]>>,
          result |-> IF state.t = "None"
                     THEN [success |-> FALSE,
                           message |-> "Command sent but failed to read back state",
                           state |-> EmptyDict]
                     ELSE [success |-> TRUE, message |-> "Command sent",
                           state |-> state]]

\* _format_command_result
format_command_result(result) ==
    IF result.success
    THEN [status |-> "success", is_on |-> result.state.is_on,
          brightness |-> result.state.brightness,
          color_temp |-> result.state.color_temp]
    ELSE [status |-> "error", message |-> result.message]

\* _format_status
format_status(state) ==
    [status |-> "success", is_on |-> state.is_on,
     brightness |-> state.brightness, color_temp |-> state.color_temp,
     bridge_connected |-> state.bridge_connected]

\* the result dict as log_state_change reads it
LoggedResult(result) ==
    [success |-> result.success,
     state |-> IF result.state = EmptyDict THEN EmptyDict
               ELSE [is_on |-> JBool(result.state.is_on),
                     brightness |-> JInt(result.state.brightness),
                     color_temp |-> JInt(result.state.color_temp)]]

\* what the published command does while send_command waits: a connected
\* bridge handles it, the bulb changes, and the bridge's reports are merged
\* into the shadow
Round(action, parameters, pubOk) ==
    LET cmd == Command(DEVICE_ID, action,
                       JObject(JStr("uuid4"), EncodeParameters(parameters)))
        r == handle_command(cmd, cl.bulb, "conn", "shadow", TRUE, TRUE)
        reports == SelectSeq(r.out, LAMBDA m : m.kind = "shadow")
    IN IF JsonEncodable(parameters) /\ pubOk /\ cl.online
       THEN [received |-> TRUE, executed |-> r.success, bulb |-> r.bulb,
             reported |-> IF reports = <<>> THEN cl.reported
                          ELSE MergeReported(cl.reported, reports[1].reported)]
       ELSE [received |-> FALSE, executed |-> FALSE, bulb |-> cl.bulb,
             reported |-> cl.reported]

\* the state get_device_state gives: None when get_thing_shadow fails
ReadBack(reported, shadowOk) ==
    IF shadowOk THEN get_device_state(DEVICE_ID, reported) ELSE [t |-> "None"]

\* a caller runs send_command(DEVICE_ID, action, parameters, ...)
cloud_send_command(action, parameters, pubOk, shadowOk) ==
    LET w == Round(action, parameters, pubOk)
        c == send_command(DEVICE_ID, action, parameters, pubOk,
                          ReadBack(w.reported, shadowOk))
    IN /\ cl' = [cl EXCEPT
                   !.bulb = w.bulb, !.reported = w.reported,
                   !.last = [op |-> "send_command", tool |-> "",
                             event |-> EmptyDict, action |-> action,
                             parameters |-> parameters, pubOk |-> pubOk,
                             shadowOk |-> shadowOk, steps |-> c.steps,
                             result |-> c.result, raised |-> c.raised,
                             received |-> w.received, executed |-> w.executed,
                             response |-> [status |-> "none"],
                             pre |-> cl.bulb]]
       /\ UNCHANGED <<bridgeVars, dev, reg, sh, lg, rc, hr>>

\* lambda_handler for a tool invocation: a command tool is sent and logged,
\* the read tool reads the shadow, any other name is refused. The event is
\* decoded JSON, so the parameters built from it are always encodable.
cloud_lambda_handler(tool_name, event, pubOk, shadowOk, logFault) ==
    IF tool_name \in {"turn_on", "turn_off", "set_brightness"}
    THEN LET parameters == lambda_parameters(tool_name, event)
             w == Round(tool_name, parameters, pubOk)
             c == send_command(DEVICE_ID, tool_name, parameters, pubOk,
                               ReadBack(w.reported, shadowOk))
             l == log_state_change(lg, DEVICE_ID, tool_name,
                                   LoggedResult(c.result), logFault)
         IN /\ cl' = [cl EXCEPT
                        !.bulb = w.bulb, !.reported = w.reported,
                        !.last = [op |-> "lambda", tool |-> tool_name,
                                  event |-> event, action |-> tool_name,
                                  parameters |-> parameters, pubOk |-> pubOk,
                                  shadowOk |-> shadowOk, steps |-> c.steps,
                                  result |-> c.result, raised |-> c.raised,
                                  received |-> w.received,
                                  executed |-> w.executed,
                                  response |-> format_command_result(c.result),
                                  pre |-> cl.bulb]]
            /\ lg' = [disabled |-> l.disabled, table |-> l.table,
                      items |-> l.items,
                      last |-> [op |-> "log", raised |-> l.raised,
                                attempted |-> l.attempted,
                                failed |-> l.failed, fault |-> logFault,
                                pre |-> [disabled |-> lg.disabled,
                                         items |-> lg.items]]]
            /\ UNCHANGED <<bridgeVars, dev, reg, sh, rc, hr>>
    ELSE LET state == ReadBack(cl.reported, shadowOk)
             read == tool_name = "get_status"
         IN /\ cl' = [cl EXCEPT
                        !.last = [op |-> "lambda", tool |-> tool_name,
                                  event |-> event, action |-> "",
                                  parameters |-> EmptyDict, pubOk |-> FALSE,
                                  shadowOk |-> shadowOk,
                                  steps |-> IF read
                                            THEN <<[call |-> "get_thing_shadow"]>>
                                            ELSE <<>>,
                                  result |-> [success |-> FALSE],
                                  raised |-> FALSE,
                                  received |-> FALSE, executed |-> FALSE,
                                  response |->
                                     IF ~read
                                     THEN [status |-> "error",
                                           message |-> "Unknown tool"]
                                     ELSE IF state.t = "None"
                                     THEN [status |-> "error",
                                           message |-> "Unable to read device state"]
                                     ELSE format_status(state),
                                  pre |-> cl.bulb]]
            /\ UNCHANGED <<bridgeVars, dev, reg, sh, lg, rc, hr>>

\* a bridge connects to the broker, or the connected one goes away
bridge_comes_or_goes ==
    /\ cl' = [cl EXCEPT !.online = ~@, !.last.op = "bridge"]
    /\ UNCHANGED <<bridgeVars, dev, reg, sh, lg, rc, hr>>

\* the shadow is found with another reported document
shadow_holds(reported) ==
    /\ cl' = [cl EXCEPT !.reported = reported, !.last.op = "shadow"]
    /\ UNCHANGED <<bridgeVars, dev, reg, sh, lg, rc, hr>>

----------------------------------------------------------------------------
(* Reconciliation: the shadow service emits a delta event whenever it has  *)
(* accepted an update and the desired document differs from the reported   *)
(* one; the bridge applies the delta and reports its state                 *)

\* the desired documents written from the cloud
ReconcileDesired ==
    { JDict(i, b, o) : i \in {Absent, JBool(TRUE), JBool(FALSE)},
                       b \in {Absent, JInt(50), JInt(150), JStr("abc")},
                       o \in BOOLEAN } \ {EmptyJDict}

\* the delta of a shadow: the desired keys whose value is not the reported
\* one (a key the bridge never reports always is), Absent when none is left
DeltaOf(desired, reported) ==
    LET d == JDict(IF desired.is_on # Absent
                      /\ desired.is_on # JBool(reported.is_on)
                   THEN desired.is_on ELSE Absent,
                   IF desired.brightness # Absent
                      /\ desired.brightness # JInt(reported.brightness)
                   THEN desired.brightness ELSE Absent,
                   desired.other)
    IN IF d = EmptyJDict THEN Absent ELSE d

\* no delta event and no update is on its way
Quiescent == rc.delta = Absent /\ rc.update = Absent

\* the desired document is written while the shadow is at rest; the service
\* accepts the update and emits the delta
cloud_writes_desired(desired) ==
    /\ Quiescent
    /\ rc' = [rc EXCEPT !.desired = desired,
                        !.delta = DeltaOf(desired, rc.reported),
                        !.reports = 0]
    /\ UNCHANGED <<bridgeVars, dev, reg, sh, lg, cl, hr>>

\* the delta event reaches the bridge: on_delta, _on_shadow_delta and
\* _apply_desired_state, whose report is on its way to the service
bridge_applies_delta ==
    /\ rc.delta # Absent
    /\ LET r == apply_desired_state(rc.delta, rc.bulb, "shadow", TRUE)
       IN rc' = [rc EXCEPT
                   !.bulb = r.bulb,
                   !.delta = Absent,
                   !.update = IF r.out = <<>> THEN Absent
                              ELSE r.out[1].reported,
                   !.reports = IF r.out = <<>> THEN @
                               ELSE Min2(@ + 1, MaxReports)]
    /\ UNCHANGED <<bridgeVars, dev, reg, sh, lg, cl, hr>>

\* the service accepts the bridge's update and, the desired document still
\* differing from the reported one, emits a delta event
service_accepts_update ==
    /\ rc.update # Absent
    /\ rc' = [rc EXCEPT !.reported = rc.update,
                        !.update = Absent,
                        !.delta = DeltaOf(rc.desired, rc.update)]
    /\ UNCHANGED <<bridgeVars, dev, reg, sh, lg, cl, hr>>

----------------------------------------------------------------------------
(* Handlers on the real bulb: every device call is an await, and the loop   *)
(* runs another handler while one is suspended                             *)

\* the fields TapoBulb.get_status takes from get_device_info()
DeviceInfo(state) ==
    [is_on |-> state.is_on, brightness |-> state.brightness,
     color_temp |-> state.color_temp]

\* the device calls a handler awaits, in order; after is what the handler
\* does with the state a get_device_info() returned
On == [call |-> "on"]
Off == [call |-> "off"]
SetBrightness(n) == [call |-> "set_brightness", n |-> n]
Info(after) == [call |-> "get_device_info", after |-> after]

\* TapoBulb.set_brightness(int(v)): nothing is awaited for a value out of
\* range; raised when int() raises
SetBrightnessCalls(v, after) ==
    LET i == IntOf(v)
    IN IF ~i.ok THEN [raised |-> TRUE, calls |-> <<>>]
       ELSE IF ~(0 <= i.n /\ i.n <= 100) THEN [raised |-> FALSE, calls |-> <<>>]
       ELSE [raised |-> FALSE, calls |-> <<SetBrightness(i.n), Info(after)>>]

\* _handle_command on the real bulb: a successful action ends with the
\* state it read, which is published in the response and reported to the
\* shadow; a failed or unknown action reports nothing
CommandCalls(action, parameters) ==
    CASE action = "turn_on" -> <<On, Info("report")>>
      [] action = "turn_off" -> <<Off, Info("report")>>
      [] action = "get_status" -> <<Info("report")>>
      [] action = "set_brightness" ->
            IF parameters.brightness = Absent THEN <<>>
            ELSE SetBrightnessCalls(parameters.brightness, "report").calls
      [] OTHER -> <<Info("respond")>>

\* _apply_desired_state on the real bulb: is_on, then brightness, then
\* _report_current_state; an exception of int() ends the handler before
\* the report
DeltaCalls(desired) ==
    LET power == IF desired.is_on = Absent THEN <<>>
                 ELSE <<IF desired.is_on.b THEN On ELSE Off, Info("discard")>>
        level == IF desired.brightness = Absent
                 THEN [raised |-> FALSE, calls |-> <<>>]
                 ELSE SetBrightnessCalls(desired.brightness, "discard")
    IN IF level.raised THEN power
       ELSE power \o level.calls \o <<Info("report")>>

\* the commands and the deltas the handlers are started for
RaceCommands ==
    { [action |-> "turn_on", parameters |-> EmptyJDict],
      [action |-> "turn_off", parameters |-> EmptyJDict],
      [action |-> "set_brightness", parameters |-> Brightness(JInt(50))],
      [action |-> "blink", parameters |-> EmptyJDict] }

RaceDeltas == { JDict(JBool(FALSE), JInt(50), FALSE) }

\* the handler goes on from the call that completed to its next await
Resume(h) == [h EXCEPT !.calls = Tail(@), !.read = Absent]

\* the handlers still suspended once h has moved on
Suspended(h) ==
    (hr.suspended \ {h}) \cup (IF Tail(h.calls) = <<>> THEN {} ELSE {Resume(h)})

\* the handlers once the loop has started one more, which ran up to its
\* first device call, or to its end when it makes none
Begun(calls, op) ==
    [hr EXCEPT
       !.begun = @ + 1,
       !.suspended = IF calls = <<>> THEN @
                     ELSE @ \cup {[id |-> hr.begun + 1,
                                   calls |-> calls, read |-> Absent]},
       !.last = op]

\* the loop starts the handler of a command
begin_command_handler(action, parameters) ==
    /\ hr.begun < MaxHandlers
    /\ hr' = Begun(CommandCalls(action, parameters), "begin_command")
    /\ UNCHANGED <<bridgeVars, dev, reg, sh, lg, cl, rc>>

\* the loop starts the handler of a delta
begin_delta_handler(desired) ==
    /\ hr.begun < MaxHandlers
    /\ hr' = Begun(DeltaCalls(desired), "begin_delta")
    /\ UNCHANGED <<bridgeVars, dev, reg, sh, lg, cl, rc>>

\* on(), off() or set_brightness() of a suspended handler completes: the
\* bulb has changed and the handler goes on to its next await
device_call_done ==
  \E h \in hr.suspended :
    /\ Head(h.calls).call # "get_device_info"
    /\ hr' = [hr EXCEPT
                 !.device =
                    CASE Head(h.calls).call = "on" -> [@ EXCEPT !.is_on = TRUE]
                      [] Head(h.calls).call = "off" -> [@ EXCEPT !.is_on = FALSE]
                      [] OTHER -> [@ EXCEPT !.brightness = Head(h.calls).n],
                 !.suspended = Suspended(h),
                 !.last = "device_call"]
    /\ UNCHANGED <<bridgeVars, dev, reg, sh, lg, cl, rc>>

\* the bulb answers a get_device_info() request with its state at that
\* moment; the answer is on its way to the handler
device_answers_info ==
  \E h \in hr.suspended :
    /\ Head(h.calls).call = "get_device_info"
    /\ h.read = Absent
    /\ hr' = [hr EXCEPT
                 !.suspended = (@ \ {h})
                                 \cup {[h EXCEPT !.read = DeviceInfo(hr.device)]},
                 !.last = "device_answers"]
    /\ UNCHANGED <<bridgeVars, dev, reg, sh, lg, cl, rc>>

\* the answer reaches the handler, which goes on without another await:
\* at its end it publishes the response and reports the state it read,
\* and the shadow accepts the update
info_call_done ==
  \E h \in hr.suspended :
    /\ Head(h.calls).call = "get_device_info"
    /\ h.read # Absent
    /\ hr' = [hr EXCEPT
                 !.accepted = IF Head(h.calls).after = "report"
                              THEN h.read ELSE @,
                 !.suspended = Suspended(h),
                 !.last = "info_call"]
    /\ UNCHANGED <<bridgeVars, dev, reg, sh, lg, cl, rc>>

----------------------------------------------------------------------------
(* Specifications *)

\* the messages of the connection-lifecycle specification: a command that
\* succeeds, one whose handler raises, and a delta
LifecycleCommands ==
    { Command(ConfigDeviceId, "turn_on", JObject(JStr("r1"), Absent)),
      Command(ConfigDeviceId, "set_brightness",
              JObject(JStr("r1"), Brightness(JStr("abc")))) }

LifecycleDeltas == { JDict(JBool(FALSE), JInt(50), FALSE) }

\* Connection lifecycle: every fault of start() and stop(), the SDK's
\* connection callbacks, and a few messages
Next ==
    \/ \E F \in StartFaults : start(F)
    \/ \E discOk \in BOOLEAN : stop(discOk)
    \/ on_connection_interrupted
    \/ on_connection_resumed
    \/ \E cmd \in LifecycleCommands : on_message(cmd)
    \/ \E delta \in LifecycleDeltas : on_shadow_delta(delta)
    \/ RunTask

Spec == Init /\ [][Next]_vars

\* start() with the consecutive failures capped
start_bounded(F) ==
    /\ (F \cap {"create", "connect", "subscribe"} # {})
          => failsSinceReset < MaxStartFailures
    /\ start(F)

\* the faults of start() in the message-handling specifications: none, a
\* failed connect, a failed delta subscription, a failed initial report
MessageStartFaults == {{}, {"connect"}, {"delta"}, {"report"}}

\* Command handling: every command, and a delta, with the bridge started,
\* stopped and restarted (with faults) around them
NextCmd ==
    \/ \E F \in MessageStartFaults : start_bounded(F)
    \/ \E discOk \in BOOLEAN : stop(discOk)
    \/ on_connection_interrupted
    \/ on_connection_resumed
    \/ \E cmd \in Commands : on_message(cmd)
    \/ \E delta \in LifecycleDeltas : on_shadow_delta(delta)
    \/ RunTask

SpecCmd == Init /\ [][NextCmd]_vars

\* Delta handling: every delta, and a few commands, with the bridge started,
\* stopped and restarted (with faults) around them
NextDelta ==
    \/ \E F \in MessageStartFaults : start_bounded(F)
    \/ \E discOk \in BOOLEAN : stop(discOk)
    \/ on_connection_interrupted
    \/ on_connection_resumed
    \/ \E cmd \in LifecycleCommands : on_message(cmd)
    \/ \E delta \in Deltas : on_shadow_delta(delta)
    \/ RunTask

SpecDelta == Init /\ [][NextDelta]_vars

\* Command handling on the real bulb: the bridge is started and stopped, and
\* up to MaxIoCommands commands are delivered to handlers that suspend on
\* device I/O
NextIO ==
    \/ \E F \in {{}} : start(F)
    \/ \E discOk \in {TRUE} : stop(discOk)
    \/ \E cmd \in IoCommands : on_message_io(cmd)
    \/ begin_command
    \/ device_io_done
    \/ info_done

SpecIO == Init /\ [][NextIO]_vars

\* the mock bulb on its own, with a state file whose writes can fail
NextDevice ==
    \/ \E action \in DeviceActions, parameters \in DeviceParameters,
          outcome \in SaveOutcomes :
            device_execute(action, parameters, outcome)
    \/ \E brightness \in DeviceBrightness, outcome \in SaveOutcomes :
            device_set_brightness(brightness, outcome)
    \/ \E desired \in DeviceDesired, outcome \in SaveOutcomes :
            device_apply_desired_state(desired, outcome)
    \/ device_construct

SpecDevice == Init /\ [][NextDevice]_vars

\* a registry and a caller holding what get_all returned
NextRegistry ==
    \/ \E device_id \in DeviceIds, device \in DeviceObjects :
            registry_register(device_id, device)
    \/ \E device_id \in DeviceIds : registry_unregister(device_id)
    \/ registry_get_all
    \/ \E device_id \in DeviceIds, device \in DeviceObjects \cup {"None"} :
            caller_mutates(device_id, device)

SpecRegistry == Init /\ [][NextRegistry]_vars

\* a shadow manager, its callers and the shadow client's deliveries
NextShadow ==
    \/ \E state \in ShadowStates, fault \in UpdateFaults :
            shadow_update_reported(state, fault)
    \/ \E fault \in SubscribeFaults : shadow_subscribe_to_delta(fault)
    \/ \E state \in DeltaStates, version \in ShadowVersions :
            deliver_delta(state, version)
    \/ \E fault \in {"none", "subscribe"} : shadow_get_shadow(fault)
    \/ \E version \in ShadowVersions : deliver_accepted(version)
    \/ \E desired \in DeltaStates : set_desired(desired)

SpecShadow == Init /\ [][NextShadow]_vars

\* a state logger and its callers
NextLogger ==
    \E action \in LogActions, result \in LogResults, fault \in LogFaults :
        logger_log_state_change(action, result, fault)

SpecLogger == Init /\ [][NextLogger]_vars

\* tool invocations and direct send_command calls, with the publish, the
\* shadow read and the logging failing or not, a bridge that is connected
\* or not, and a shadow found with different reported documents
NextCloud ==
    \/ \E c \in CloudCalls, pubOk \in BOOLEAN, shadowOk \in BOOLEAN :
            cloud_send_command(c.action, c.parameters, pubOk, shadowOk)
    \/ \E c \in ToolCalls, pubOk \in BOOLEAN, shadowOk \in BOOLEAN,
          logFault \in CloudLogFaults :
            cloud_lambda_handler(c.tool_name, c.event, pubOk, shadowOk, logFault)
    \/ bridge_comes_or_goes
    \/ \E reported \in CloudReported : shadow_holds(reported)

SpecCloud == Init /\ [][NextCloud]_vars

\* handlers of commands and deltas suspended on the real bulb's I/O, in
\* every interleaving
NextRace ==
    \/ \E c \in RaceCommands : begin_command_handler(c.action, c.parameters)
    \/ \E desired \in RaceDeltas : begin_delta_handler(desired)
    \/ device_call_done
    \/ device_answers_info
    \/ info_call_done

SpecRace == Init /\ [][NextRace]_vars

\* reconciliation of a started bridge with its shadow; the bridge and the
\* service do not stall
NextReconcile ==
    \/ \E desired \in ReconcileDesired : cloud_writes_desired(desired)
    \/ bridge_applies_delta
    \/ service_accepts_update

SpecReconcile ==
    /\ Init
    /\ [][NextReconcile]_vars
    /\ WF_vars(bridge_applies_delta)
    /\ WF_vars(service_accepts_update)

----------------------------------------------------------------------------
(* Properties *)

\* the responses among the messages an operation published
Responses(out) == SelectSeq(out, LAMBDA m : m.kind = "response")

\* a start() that got past the guard and failed
StartFailed == last.op = "start" /\ last.touched # {} /\ ~last.result

\* the number of further consecutive start() failures that disable the bridge
RECURSIVE FailuresToDisable(_, _)
FailuresToDisable(delay, dis) ==
    IF dis THEN 0
    ELSE 1 + FailuresToDisable(handle_connection_failure(delay, dis).reconnect_delay,
                               handle_connection_failure(delay, dis).disabled)

\* C1: after exactly 3 consecutive start() failures the bridge is Disabled
\* (on the 3rd failure, not earlier and not later), and a start() in the
\* Disabled state returns false without attempting a connection.
C1_DisabledAfterThreeFailures ==
    /\ StartFailed => (disabled <=> failsSinceReset >= 3)
    /\ (last.op = "start" /\ last.touched = {}) => (disabled /\ ~last.result)

\* C2: Disabled is a sink: no operation clears is_disabled, and every start()
\* in that state returns false without creating a connection, connecting or
\* subscribing.
C2_DisabledIsSink ==
    [][disabled =>
         /\ disabled'
         /\ last'.op = "start" =>
               /\ ~last'.result
               /\ last'.touched = {}
               /\ UNCHANGED <<connection, shadow_manager, link>>]_vars

C2_Witness == disabled /\ last.op = "start" /\ last.touched = {} /\ ~last.result

\* C3: only consecutive failures count: while the bridge is not Disabled, the
\* failures since the last reset (construction, a successful start() or the
\* connection-resumed callback) plus the failures still needed to disable it
\* add up to what a freshly constructed bridge needs.
C3_OnlyConsecutiveFailuresCount ==
    ~disabled =>
        failsSinceReset + FailuresToDisable(reconnect_delay, disabled)
          = FailuresToDisable(MIN_RECONNECT_DELAY_SEC, FALSE)

\* the resumed callback ran on a connection whose start() had failed at the
\* command subscription
C3_Witness ==
    /\ last.op = "resumed" /\ ~disabled /\ ~link.commands
    /\ FailuresToDisable(reconnect_delay, disabled)
         = FailuresToDisable(MIN_RECONNECT_DELAY_SEC, FALSE)

\* C4 as stated: a fault in any step of start(), the delta subscription and
\* the initial state report included, makes start() count one failure and
\* return false.
C4_AnyFaultFailsStart ==
    (last.op = "start" /\ last.faults # {}) => (~last.result /\ ~last.raised)

\* C4: start() never raises; a fault while creating the connection,
\* connecting or subscribing to the command topic is counted once (the
\* back-off doubles, and the bridge is disabled when it reaches the maximum)
\* and start() returns false; a fault in the delta subscription or the
\* initial state report is swallowed and start() returns true.
C4_StartFaults ==
    [][(last'.op = "start" /\ ~disabled) =>
         /\ ~last'.raised
         /\ IF last'.faults \cap {"create", "connect", "subscribe"} # {}
            THEN /\ ~last'.result
                 /\ reconnect_delay'
                      = Min2(2 * reconnect_delay, MAX_RECONNECT_DELAY_SEC)
                 /\ disabled' = (reconnect_delay' >= MAX_RECONNECT_DELAY_SEC)
                 /\ UNCHANGED running
            ELSE /\ last'.result
                 /\ running'
                 /\ reconnect_delay' = MIN_RECONNECT_DELAY_SEC
                 /\ ~disabled']_vars

C4_Witness == last.op = "start" /\ last.faults = {"subscribe"} /\ disabled

\* C5: stop() never raises and leaves is_running false and both handles
\* cleared whether or not the disconnect succeeded; a stop() right after a
\* stop() performs no disconnect and changes no state.
C5_StopIdempotent ==
    [][last'.op = "stop" =>
         /\ ~last'.raised
         /\ ~running' /\ connection' = "None" /\ shadow_manager' = "None"
         /\ last.op = "stop" =>
               /\ last'.touched = {}
               /\ UNCHANGED <<reconnect_delay, disabled, running, connection,
                              shadow_manager, loop, bulb, link, queue>>]_vars

\* a stop() whose disconnect failed
C5_Witness ==
    /\ last.op = "stop" /\ last.faults = {"disconnect"}
    /\ ~running /\ connection = "None" /\ shadow_manager = "None"

\* C6: the connection-interruption callback changes no bridge state and
\* schedules and publishes nothing.
C6_InterruptionChangesNothing ==
    [][last'.op = "interrupted" =>
         /\ UNCHANGED <<reconnect_delay, disabled, running, connection,
                        shadow_manager, loop, bulb, queue>>
         /\ last'.out = <<>>]_vars

\* an interruption while the failure counter is not at its initial value
C6_Witness ==
    last.op = "interrupted" /\ reconnect_delay > MIN_RECONNECT_DELAY_SEC

\* a handled command for the bridge's device whose payload is a JSON object
\* with a request_id
CarriesRequestId ==
    /\ last.op = "command"
    /\ last.cmd.device = ConfigDeviceId
    /\ last.cmd.payload.t = "object"
    /\ last.cmd.payload.request_id # Absent

\* C7 as stated: every such command yields exactly one published response,
\* and it carries the command's request_id.
C7_ExactlyOneResponse ==
    CarriesRequestId =>
        /\ Len(Responses(last.out)) = 1
        /\ Responses(last.out)[1].payload.request_id = last.cmd.payload.request_id

\* C7: every such command yields at most one published response, exactly one
\* when the bridge holds a connection and the publish succeeds, and every
\* response carries the command's request_id verbatim.
C7_RequestIdEchoed ==
    CarriesRequestId =>
        /\ Len(Responses(last.out)) <= 1
        /\ (last.conn /\ last.pubOk) => Len(Responses(last.out)) = 1
        /\ \A i \in DOMAIN Responses(last.out) :
              Responses(last.out)[i].payload.request_id
                = last.cmd.payload.request_id

C7_Witness ==
    /\ CarriesRequestId
    /\ Len(Responses(last.out)) = 1
    /\ Responses(last.out)[1].payload.request_id = JStr("r1")

\* C8: a command whose topic names a device that is not registered yields
\* exactly one response, on that device's response topic, with success=false
\* and an "unknown device" message, and mutates no device.
C8_UnknownDeviceRejected ==
    [][(last'.op = "command" /\ last'.cmd.device # ConfigDeviceId
          /\ last'.conn /\ last'.pubOk) =>
         /\ Len(Responses(last'.out)) = 1
         /\ Responses(last'.out)[1].topic.device = last'.cmd.device
         /\ ~Responses(last'.out)[1].payload.success
         /\ Responses(last'.out)[1].payload.message.text = "Unknown device: "
         /\ bulb' = bulb]_vars

\* C9: every response is published on the response topic of the device the
\* command's topic names, under the request_id its payload carries, and the
\* payload has request_id, device_id, success, message, state and timestamp.
C9_ResponseAddressing ==
    last.op = "command" =>
        \A i \in DOMAIN Responses(last.out) :
            LET m == Responses(last.out)[i]
            IN /\ m.topic.device = last.cmd.device
               /\ m.topic.request_id = m.payload.request_id
               /\ {"request_id", "device_id", "success", "message", "state",
                   "timestamp"} \subseteq DOMAIN m.payload
               /\ m.payload.device_id = last.cmd.device

\* C10: no error escapes _handle_command, whatever the topic and payload,
\* and when a connection exists (and the publish succeeds) a response for
\* the command has been published.
C10_NoErrorEscapes ==
    last.op = "command" =>
        /\ ~last.raised
        /\ (last.conn /\ last.pubOk) => Len(Responses(last.out)) >= 1

\* the shadow updates among the messages an operation published
Shadows(out) == SelectSeq(out, LAMBDA m : m.kind = "shadow")

\* a handled command whose payload text is not JSON (the empty payload included)
UnparseablePayload == last.op = "command" /\ last.cmd.payload.t = "badjson"

SupportedActions == {"turn_on", "turn_off", "get_status", "set_brightness"}

\* a command the handlers refuse: its payload yields a parameter map, and
\* either the action is not supported or it is set_brightness without the
\* brightness parameter
Refused(cmd) ==
    LET parsed == ParsePayload(cmd.payload)
    IN /\ parsed.bound /\ parsed.data.t = "object"
       /\ ParametersOf(parsed.data).t = "dict"
       /\ \/ cmd.action \notin SupportedActions
          \/ /\ cmd.action = "set_brightness"
             /\ ParametersOf(parsed.data).brightness = Absent

\* C12 as stated: a command with an unsupported action, or set_brightness
\* without brightness, is surfaced as exactly one published response with
\* success=false.
C12_RefusalPublishedOnce ==
    (last.op = "command" /\ Refused(last.cmd)) =>
        /\ Len(Responses(last.out)) = 1
        /\ ~Responses(last.out)[1].payload.success

\* C12: such a command leaves the device's state unchanged, raises nothing
\* and yields at most one response, exactly one when the bridge holds a
\* connection and the publish succeeds; every response has success=false and
\* the message "Unknown action: <action>", respectively "brightness parameter
\* required".
C12_RefusalSurfaced ==
    (last.op = "command" /\ Refused(last.cmd)) =>
        LET R == Responses(last.out)
        IN /\ ~last.raised
           /\ bulb = last.pre
           /\ Len(R) <= 1
           /\ (last.conn /\ last.pubOk) => Len(R) = 1
           /\ \A i \in DOMAIN R :
                 /\ ~R[i].payload.success
                 /\ R[i].payload.message.text =
                       IF last.cmd.action = "set_brightness"
                       THEN "brightness parameter required"
                       ELSE "Unknown action: "

\* set_brightness with parameters {} was answered with the refusal
C12_Witness ==
    /\ last.op = "command" /\ Refused(last.cmd)
    /\ last.cmd.action = "set_brightness"
    /\ last.cmd.payload.t = "object"
    /\ Len(Responses(last.out)) = 1
    /\ Responses(last.out)[1].payload.message.text = "brightness parameter required"

\* C13 as stated: after a command completes with success=true the bridge
\* publishes a shadow update, after the response; after success=false none.
C13_SuccessPublishesShadow ==
    last.op = "command" =>
        /\ last.success => (Len(Shadows(last.out)) = 1
                              /\ last.out[Len(last.out)].kind = "shadow")
        /\ ~last.success => Shadows(last.out) = <<>>

\* C13: a command that completes with success=true, with the bridge holding
\* a shadow manager, is followed by one shadow update unless the update's
\* publish fails; the update carries the device's state with
\* bridge_connected and device_reachable and comes after every response of
\* the command; without success, or without a shadow manager, there is no
\* shadow update.
C13_ShadowAfterResponse ==
    last.op = "command" =>
        /\ Len(Shadows(last.out)) <= 1
        /\ (last.success /\ last.sm /\ ~last.shadowFailed)
              <=> Len(Shadows(last.out)) = 1
        /\ \A i, j \in DOMAIN last.out :
              (last.out[i].kind = "shadow" /\ last.out[j].kind = "response")
                 => j < i
        /\ \A i \in DOMAIN Shadows(last.out) :
              Shadows(last.out)[i].reported = ReportedState(get_status(bulb))

\* a successful command published its response and then the shadow update
C13_Witness ==
    /\ last.op = "command" /\ last.success
    /\ Len(last.out) = 2
    /\ last.out[1].kind = "response" /\ last.out[2].kind = "shadow"
    /\ last.out[2].reported.is_on

\* C14: when update_reported fails after a successful device action, the
\* response of that command has success=true (and is there when the bridge
\* holds a connection and the publish succeeds), the device keeps the state
\* the action gave it, and no exception escapes the handler.
C14_ShadowFailureNotCommandFailure ==
    (last.op = "command" /\ last.success /\ last.shadowFailed) =>
        LET data == ParsePayload(last.cmd.payload).data
            h    == RunHandler(last.cmd.action, ParametersOf(data), last.pre)
            R    == Responses(last.out)
        IN /\ ~last.raised
           /\ bulb = h.bulb
           /\ Len(R) <= 1
           /\ (last.conn /\ last.pubOk) => Len(R) = 1
           /\ \A i \in DOMAIN R : R[i].payload.success

\* set_brightness 50 was answered with success and stands although the
\* shadow update failed
C14_Witness ==
    /\ last.op = "command" /\ last.success /\ last.shadowFailed
    /\ last.cmd.action = "set_brightness"
    /\ bulb.brightness = 50
    /\ Len(last.out) = 1
    /\ last.out[1].kind = "response" /\ last.out[1].payload.success

\* is_on, brightness and color_temp of a device state
Observable(state) ==
    [is_on |-> state.is_on, brightness |-> state.brightness,
     color_temp |-> state.color_temp]

\* the patch a delta addresses to a device: the one under the device's id
\* in a per-device delta, the whole document in a flat one
PatchFor(device, desired) ==
    IF "devices" \in DOMAIN desired
    THEN IF device \in DOMAIN desired.devices
         THEN desired.devices[device]
         ELSE EmptyJDict
    ELSE desired

\* C15: a delta is applied to exactly the devices it addresses: a delta
\* keyed by a registered device id applies the patch under that key to that
\* device, a flat delta applies to every device; afterwards the state is
\* re-reported (every shadow update of the handler carries the new state).
C15_DeltaAppliedToAddressedDevices ==
    (last.op = "delta"
       /\ ~bulb_apply_desired_state(PatchFor(ConfigDeviceId, last.desired),
                                    last.pre).raised) =>
        /\ bulb = bulb_apply_desired_state(
                      PatchFor(ConfigDeviceId, last.desired), last.pre).bulb
        /\ \A i \in DOMAIN Shadows(last.out) :
              Shadows(last.out)[i].reported = ReportedState(get_status(bulb))

\* a delta with no key the handler recognizes and no device id
OnlyUnrecognized(desired) ==
    /\ desired.is_on = Absent /\ desired.brightness = Absent /\ desired.other
    /\ "devices" \notin DOMAIN desired

\* C16: a desired-state delta with only unrecognized keys, applied by the
\* bridge's delta handler or by the device's apply_desired_state, leaves
\* is_on, brightness and color_temp unchanged and raises no error.
C16_UnrecognizedKeysIgnored ==
    (last.op = "delta" /\ OnlyUnrecognized(last.desired)) =>
        /\ ~last.raised
        /\ Observable(bulb) = Observable(last.pre)
        /\ ~bulb_apply_desired_state(last.desired, last.pre).raised
        /\ Observable(bulb_apply_desired_state(last.desired, last.pre).bulb)
             = Observable(last.pre)

\* such a delta was handled on a bulb that is on at brightness 50
C16_Witness ==
    /\ last.op = "delta" /\ OnlyUnrecognized(last.desired) /\ ~last.raised
    /\ bulb.is_on /\ bulb.brightness = 50

\* C17: the transport callbacks (inbound message, shadow delta, connection
\* resumed, connection interrupted) run on the SDK's thread and there call
\* no device method and publish nothing: each at most appends one coroutine
\* to the queue of the loop captured at start(); every change of device
\* state and every publish happens in an operation that runs on that loop.
C17_CallbacksOnlyHandOff ==
    [][/\ last'.ctx = "sdk" =>
             /\ bulb' = bulb
             /\ last'.out = <<>>
             /\ Len(queue') <= Len(queue) + 1
             /\ SubSeq(queue', 1, Len(queue)) = queue
             /\ queue' # queue => loop = "loop"
       /\ (bulb' # bulb \/ last'.out # <<>>) =>
             /\ last'.ctx = "loop"
             /\ last'.op \in {"start", "command", "delta", "report"}]_vars

\* the message callback left a command coroutine on the loop's queue
C17_Witness ==
    /\ last.op = "on_message" /\ last.ctx = "sdk" /\ loop = "loop"
    /\ queue # <<>> /\ queue[Len(queue)].kind = "command"

C19_DeliveryOrder ==
    \A i, j \in DOMAIN io.log :
        (i < j /\ io.log[i].ev = io.log[j].ev) => io.log[i].id < io.log[j].id

\* C20: every reported state the bridge publishes has the shape
\* {devices: {<device_id>: {is_on, brightness, color_temp, device_reachable}},
\* bridge_connected}, without a last-update timestamp, and the cloud
\* adapter's get_device_state reads the device's is_on, brightness and
\* color_temp from it rather than None.
C20_ReportedShape ==
    \A i \in DOMAIN Shadows(last.out) :
        LET reported == Shadows(last.out)[i].reported
        IN /\ DOMAIN reported = {"devices", "bridge_connected"}
           /\ DOMAIN reported.devices = {ConfigDeviceId}
           /\ DOMAIN reported.devices[ConfigDeviceId]
                = {"is_on", "brightness", "color_temp", "device_reachable"}
           /\ get_device_state(ConfigDeviceId, reported)
                = [t |-> "state", is_on |-> bulb.is_on,
                   brightness |-> bulb.brightness,
                   color_temp |-> bulb.color_temp,
                   bridge_connected |-> TRUE]

----------------------------------------------------------------------------
(* The mock bulb on its own *)

\* the last call asked for a brightness outside 0..100
BrightnessOutOfRange ==
    /\ dev.last.op \in {"execute", "set_brightness"}
    /\ dev.last.action = "set_brightness"
    /\ dev.last.parameters.brightness.t = "int"
    /\ ~(0 <= dev.last.parameters.brightness.n
           /\ dev.last.parameters.brightness.n <= 100)

\* the call of dev.last made once more on the bulb's present state
SameCallAgain ==
    IF dev.last.op = "execute"
    THEN execute(dev.last.action, dev.last.parameters, dev.state)
    ELSE [raised |-> FALSE]
            @@ set_brightness(dev.state, dev.last.parameters.brightness.n)

\* C21: a brightness outside 0..100, passed to set_brightness or to
\* execute("set_brightness"), is answered with success = false; the bulb's
\* is_on, brightness and color_temp and its state file are what they were
\* before the call, and the same call made again gives the same result and
\* again changes nothing.
C21_OutOfRangeRejected ==
    BrightnessOutOfRange =>
        /\ ~dev.last.raised
        /\ dev.last.result.success = FALSE
        /\ get_shadow_state(dev.state) = get_shadow_state(dev.last.pre)
        /\ dev.file = dev.last.prefile
        /\ ~SameCallAgain.raised
        /\ SameCallAgain.result = dev.last.result
        /\ SameCallAgain.bulb = dev.state

\* execute rejected an out-of-range brightness on a bulb whose state had
\* been changed and saved
C21_Witness ==
    /\ BrightnessOutOfRange
    /\ dev.last.op = "execute"
    /\ dev.last.parameters.brightness.n = 101
    /\ dev.state.brightness = 50
    /\ dev.file = JsonFile(dev.state)

\* C22: whenever execute returns from a supported action, whether it
\* succeeded or failed, its result carries a state with is_on, brightness
\* and color_temp.
C22_ResultCarriesState ==
    (/\ dev.last.op = "execute"
     /\ dev.last.action \in supported_actions
     /\ ~dev.last.raised)
        => /\ "state" \in DOMAIN dev.last.result
           /\ {"is_on", "brightness", "color_temp"}
                  \subseteq DOMAIN dev.last.result.state

\* C23: execute never raises, whatever the action name and the parameter
\* map: an unsupported action, a missing, out-of-range or non-numeric
\* brightness are answered with a result whose success is false.
C23_ExecuteNeverRaises ==
    dev.last.op = "execute" =>
        /\ ~dev.last.raised
        /\ (\/ dev.last.action \notin supported_actions
            \/ /\ dev.last.action = "set_brightness"
               /\ dev.last.parameters.brightness \notin
                      { JInt(n) : n \in 0..100 })
              => dev.last.result.success = FALSE

\* the last call was a mutation that returned success
SuccessfulMutation ==
    /\ dev.last.op \in {"execute", "set_brightness"}
    /\ dev.last.action \in {"turn_on", "turn_off", "set_brightness"}
    /\ ~dev.last.raised
    /\ dev.last.result.success

\* C24: after a mutation that returned success, a device constructed from
\* the same state file has exactly the bulb's is_on, brightness and
\* color_temp.
C24_RoundTrip ==
    SuccessfulMutation =>
        get_shadow_state(load_state(dev.file)) = get_shadow_state(dev.state)

\* C34: whatever turn_on, turn_off, set_brightness, execute and
\* apply_desired_state calls a default-initialised bulb went through, its
\* brightness is an integer from 0 to 100, its is_on a boolean and its
\* color_temp the initial one.
C34_StateStaysInRange ==
    /\ dev.state.brightness \in 0..100
    /\ dev.state.is_on \in BOOLEAN
    /\ dev.state.color_temp = DefaultState.color_temp

\* apply_desired_state was given a brightness of 150 on a bulb that is on
\* with brightness 0
C34_Witness ==
    /\ dev.last.op = "apply_desired_state"
    /\ dev.last.parameters.brightness = JInt(150)
    /\ dev.state.is_on
    /\ dev.state.brightness = 0

----------------------------------------------------------------------------
(* The device registry *)

\* C25: register(id, device) raises exactly when the id is already present,
\* and then leaves the registry as it was; otherwise, also for an id that
\* was unregistered before, it adds the entry and get(id) returns the device
\* just registered.
C25_RegisterRejectsDuplicates ==
    reg.last.op = "register" =>
        /\ reg.last.raised <=> contains(reg.last.pre, reg.last.id)
        /\ reg.last.raised => reg.devices = reg.last.pre
        /\ ~reg.last.raised =>
              /\ get(reg.devices, reg.last.id) = reg.last.device
              /\ len(reg.devices) = len(reg.last.pre) + 1
              /\ \A i \in DeviceIds \ {reg.last.id} :
                    get(reg.devices, i) = get(reg.last.pre, i)

\* an id was unregistered and registered again, and a further register of
\* it with another device was refused
C25_Witness ==
    /\ reg.last.op = "register"
    /\ reg.last.raised
    /\ reg.last.id \in reg.removed
    /\ reg.last.device # get(reg.devices, reg.last.id)

\* C26: what a caller does to the dict get_all returned changes nothing in
\* the registry: membership, get, the length and the list of ids are what
\* they were.
C26_GetAllIsSnapshot ==
    reg.last.op = "mutate" =>
        /\ \A i \in DeviceIds :
              /\ contains(reg.devices, i) = contains(reg.last.pre, i)
              /\ get(reg.devices, i) = get(reg.last.pre, i)
        /\ len(reg.devices) = len(reg.last.pre)
        /\ list_device_ids(reg.devices) = list_device_ids(reg.last.pre)

\* the caller deleted from its dict an id the registry holds
C26_Witness ==
    /\ reg.last.op = "mutate"
    /\ reg.last.device = "None"
    /\ contains(reg.devices, reg.last.id)
    /\ ~DictHas(reg.held.dict, reg.last.id)

----------------------------------------------------------------------------
(* The shadow manager *)

\* C27: update_reported never raises: it returns false when the client, the
\* serialization, the publish or the acknowledgement fails and true when the
\* publish is acknowledged; an update identical to the one delivered just
\* before leaves the shadow's reported content as that one left it.
C27_UpdateReportedReturnsOutcome ==
    sh.last.op = "update_reported" =>
        /\ ~sh.last.raised
        /\ sh.last.result <=> sh.last.fault = "none"
        /\ sh.last.repeat => sh.doc.reported = sh.last.pre.doc.reported

\* an update identical to the preceding one was delivered, its
\* acknowledgement timed out and update_reported returned false
C27_Witness ==
    /\ sh.last.op = "update_reported"
    /\ sh.last.repeat
    /\ sh.last.fault = "timeout_delivered"
    /\ ~sh.last.result
    /\ sh.doc.reported = sh.last.state

\* C28: every shadow-update request of the manager carries the reported
\* section only, and the document's desired section is what it was before
\* the update.
C28_UpdatesWriteReportedOnly ==
    sh.last.op = "update_reported" =>
        /\ \A i \in DOMAIN sh.last.request :
              DOMAIN sh.last.request[i] = {"reported"}
        /\ sh.doc.desired = sh.last.pre.doc.desired

\* an update changed the reported section of a document whose desired
\* section is not empty
C28_Witness ==
    /\ sh.last.op = "update_reported"
    /\ sh.last.request # <<>>
    /\ sh.doc.reported # sh.last.pre.doc.reported
    /\ sh.doc.desired # EmptyDict

\* C29: the manager's version never decreases, whatever the order in which
\* delta events and get-shadow responses are delivered.
C29_VersionNeverDecreases ==
    sh.last.op \in {"delta", "accepted"} => sh.version >= sh.last.pre.version

\* C30 as stated: every delta event delivered to the listener invokes the
\* callback exactly once with the event's state map and records the event's
\* version when it has one.
C30_EveryDeltaInvokesCallback ==
    sh.last.op = "delta" =>
        /\ sh.calls = Append(sh.last.pre.calls, sh.last.state)
        /\ sh.last.version # 0 => sh.version = sh.last.version

\* C30: subscribe_to_delta never raises, returns false when the subscription
\* failed and leaves at most one delta listener registered; a delta event
\* with a non-empty state map invokes the callback exactly once with that
\* map, after the earlier events' invocations, and records the event's
\* version when it has one; a delta event without state is dropped: no
\* invocation, no version recorded.
C30_DeltaWithStateInvokesCallback ==
    /\ sh.listeners <= 1
    /\ sh.listeners > 0 => sh.delta_callback
    /\ sh.last.op = "subscribe_to_delta" =>
          /\ ~sh.last.raised
          /\ sh.last.result <=> sh.last.fault = "none"
          /\ sh.last.result => sh.listeners = 1
          /\ sh.calls = sh.last.pre.calls
    /\ sh.last.op = "delta" =>
          IF sh.last.state # EmptyDict
          THEN /\ sh.calls = Append(sh.last.pre.calls, sh.last.state)
               /\ sh.version = IF sh.last.version # 0 THEN sh.last.version
                                ELSE sh.last.pre.version
          ELSE /\ sh.calls = sh.last.pre.calls
               /\ sh.version = sh.last.pre.version

\* two delta events with different state maps were delivered, the second
\* with a version
C30_Witness ==
    /\ sh.last.op = "delta"
    /\ Len(sh.calls) = 2
    /\ sh.calls[1] # sh.calls[2]
    /\ sh.calls[2] = sh.last.state
    /\ sh.last.version # 0
    /\ sh.version = sh.last.version

----------------------------------------------------------------------------
(* The running bridge *)

\* C35: is_running and is_disabled are never both true, whatever start(),
\* stop() and the transport callbacks did, start() on a running bridge
\* included.
C35_RunningExcludesDisabled == ~(running /\ disabled)

\* C36: when start() returns true the shadow delta subscription is active.
C36_StartedImpliesDeltaSubscribed ==
    (last.op = "start" /\ last.result) => link.delta

----------------------------------------------------------------------------
(* The state logger *)

\* C33: log_state_change never raises; a call whose write fails leaves the
\* logger disabled; a call on a disabled logger attempts no write, puts no
\* item and leaves the logger disabled.
C33_LoggerDisablesItself ==
    lg.last.op = "log" =>
        /\ ~lg.last.raised
        /\ lg.last.failed => lg.disabled
        /\ lg.last.pre.disabled =>
              /\ ~lg.last.attempted
              /\ lg.items = lg.last.pre.items
              /\ lg.disabled

\* a call that nothing would have made fail came to a logger that had put
\* an item and was disabled later
C33_Witness ==
    /\ lg.last.op = "log"
    /\ lg.last.pre.disabled
    /\ lg.last.fault = "none"
    /\ lg.items # {}

----------------------------------------------------------------------------
(* Reconciliation with the shadow *)

\* C37: reconciliation terminates: whatever desired document was written,
\* the exchange of delta events and reported-state updates comes to rest.
C37_ReconciliationTerminates == (~Quiescent) ~> Quiescent

----------------------------------------------------------------------------
(* The cloud adapter and the serverless handler *)

\* the last operation ran send_command
SentCommand ==
    \/ cl.last.op = "send_command"
    \/ cl.last.op = "lambda" /\ cl.last.action # ""

\* what send_command did in the last operation, against its contract
SendCommandContract ==
    LET l == cl.last
        publish == [call |-> "publish", device |-> DEVICE_ID,
                    action |-> l.action]
        state == ReadBack(cl.reported, l.shadowOk)
    IN /\ ~l.raised
       /\ IF ~l.pubOk
          THEN /\ l.steps = <<publish>>
               /\ l.result.success = FALSE
               /\ l.result.state = EmptyDict
          ELSE /\ l.steps = <<publish, [call |-> "sleep"],
                              [call |-> "get_thing_shadow"]>>
               /\ IF state.t = "None"
                  THEN /\ l.result.success = FALSE
                       /\ l.result.state = EmptyDict
                  ELSE /\ l.result.success = TRUE
                       /\ l.result.state = state

EventBrightness ==
    IF "brightness" \in DOMAIN cl.last.event
    THEN cl.last.event.brightness ELSE cl.last.event.level

\* C32: the brightness value in the event of a set_brightness invocation is
\* forwarded to send_command as {"brightness": value}, and a bridge that
\* receives the command sets the bulb's brightness to that value.
C32_BrightnessForwarded ==
    (/\ cl.last.op = "lambda"
     /\ cl.last.tool = "set_brightness"
     /\ cl.last.event # EmptyDict)
        => /\ cl.last.parameters = [brightness |-> EventBrightness]
           /\ cl.last.received => cl.bulb.brightness = EventBrightness.n

\* C40: send_command returns success = true only when the bridge received
\* the command and the device executed it successfully.
C40_SuccessMeansExecuted ==
    (SentCommand /\ cl.last.result.success)
        => (cl.last.received /\ cl.last.executed)
----------------------------------------------------------------------------
(* Handlers overtaken by stop() *)

\* the handler of command id changed the device
Mutated(id) ==
    \E j \in DOMAIN io.log : io.log[j].ev = "effect" /\ io.log[j].id = id

\* C39: every command handler that has changed the device's state publishes
\* a response for its command, also when stop() ran while the handler was
\* suspended on device I/O or before the handler started.
C39_MutatingHandlerResponds ==
    \A i \in DOMAIN io.log :
        (io.log[i].ev = "response" /\ Mutated(io.log[i].id))
            => io.log[i].published

\* C39, as the code has it: a handler that has changed the device's state
\* publishes its response exactly when the bridge holds a connection at
\* the moment the handler finishes; after stop() it publishes none.
C39_RespondsWhileConnected ==
    (last.op = "command" /\ io.log # <<>>
        /\ Mutated(io.log[Len(io.log)].id))
        => (io.log[Len(io.log)].published <=> last.conn)

\* stop() ran while a handler was suspended on device I/O; the handler
\* changed the device and finished without a response
C39_Witness ==
    /\ last.op = "command" /\ io.log # <<>>
    /\ Mutated(io.log[Len(io.log)].id)
    /\ ~last.conn
    /\ ~io.log[Len(io.log)].published
    /\ ~running
----------------------------------------------------------------------------
(* Concurrent handlers and the reported state *)

\* C38: once every command and delta handler that was started has
\* completed, the reported state the shadow accepted last equals the
\* bulb's is_on, brightness and color_temp, whatever the interleaving of
\* the handlers at their device calls.
C38_ReportedMatchesDevice ==
    hr.suspended = {} => hr.accepted = Observable(hr.device)
====
